---- MODULE Spec2Model ----
(***************************************************************************)
(* A model of the HTTP cache engine of src/source/index.mts (class         *)
(* HttpCache), of the cache-control parser, of toSafePositiveInteger and   *)
(* of the stream helpers of src/source/clone-stream.mts.                   *)
(*                                                                         *)
(* Strings of the program are TLA+ strings.  Where the program looks at    *)
(* the characters of a string (the parser, split, trim, the digit test),   *)
(* the model looks at Chars(s), the sequence of the characters of s.       *)
(* JavaScript's null and undefined are the strings Null and Undefined; an  *)
(* absent number (undefined, null or NaN) is NoNumber.                     *)
(***************************************************************************)
EXTENDS Integers, Sequences, FiniteSets, TLC

Null == "<null>"
Undefined == "<undefined>"
NoNumber == -1

(***************************************************************************)
(* Bounds of the model.                                                    *)
(***************************************************************************)
\* The clock (Date.now(), in milliseconds) advances in steps of TickMs up to MaxNow.
TickMs == 1000
MaxNow == 1000
\* crypto.randomUUID() is called at most MaxIds times.
MaxIds == 2
\* the most writes left in flight by failed insertions when a further one is made
MaxLate == 1
\* the number of directives in a generated Cache-Control field value
MaxDirectives == 3

(***************************************************************************)
(* Characters of the strings that the program scans.                       *)
(***************************************************************************)
Chars(s) ==
  CASE
       s = "max-age=1" -> <<"m", "a", "x", "-", "a", "g", "e", "=", "1">>
    [] s = "max-age=60" -> <<"m", "a", "x", "-", "a", "g", "e", "=", "6", "0">>
    [] s = "max-age=1, must-revalidate" -> <<"m", "a", "x", "-", "a", "g", "e", "=", "1", ",", " ", "m", "u", "s", "t", "-", "r", "e", "v", "a", "l", "i", "d", "a", "t", "e">>
    [] s = "max-age=1, proxy-revalidate" -> <<"m", "a", "x", "-", "a", "g", "e", "=", "1", ",", " ", "p", "r", "o", "x", "y", "-", "r", "e", "v", "a", "l", "i", "d", "a", "t", "e">>
    [] s = "max-age=60, no-cache" -> <<"m", "a", "x", "-", "a", "g", "e", "=", "6", "0", ",", " ", "n", "o", "-", "c", "a", "c", "h", "e">>
    [] s = "max-age=60, max-age=120" -> <<"m", "a", "x", "-", "a", "g", "e", "=", "6", "0", ",", " ", "m", "a", "x", "-", "a", "g", "e", "=", "1", "2", "0">>
    [] s = "no-store" -> <<"n", "o", "-", "s", "t", "o", "r", "e">>
    [] s = "no-cache" -> <<"n", "o", "-", "c", "a", "c", "h", "e">>
    [] s = "public" -> <<"p", "u", "b", "l", "i", "c">>
    [] s = "private" -> <<"p", "r", "i", "v", "a", "t", "e">>
    [] s = "s-maxage=1" -> <<"s", "-", "m", "a", "x", "a", "g", "e", "=", "1">>
    [] s = "must-understand" -> <<"m", "u", "s", "t", "-", "u", "n", "d", "e", "r", "s", "t", "a", "n", "d">>
    [] s = "max-stale=1" -> <<"m", "a", "x", "-", "s", "t", "a", "l", "e", "=", "1">>
    [] s = "max-stale" -> <<"m", "a", "x", "-", "s", "t", "a", "l", "e">>
    [] s = "min-fresh=1" -> <<"m", "i", "n", "-", "f", "r", "e", "s", "h", "=", "1">>
    [] s = "min-fresh=1000" -> <<"m", "i", "n", "-", "f", "r", "e", "s", "h", "=", "1", "0", "0", "0">>
    [] s = "only-if-cached" -> <<"o", "n", "l", "y", "-", "i", "f", "-", "c", "a", "c", "h", "e", "d">>
    [] s = "max-age=0" -> <<"m", "a", "x", "-", "a", "g", "e", "=", "0">>
    [] s = "max-age" -> <<"m", "a", "x", "-", "a", "g", "e">>
    [] s = "max-stale=0" -> <<"m", "a", "x", "-", "s", "t", "a", "l", "e", "=", "0">>
    [] s = "min-fresh=0" -> <<"m", "i", "n", "-", "f", "r", "e", "s", "h", "=", "0">>
    [] s = "must-revalidate" -> <<"m", "u", "s", "t", "-", "r", "e", "v", "a", "l", "i", "d", "a", "t", "e">>
    [] s = "proxy-revalidate" -> <<"p", "r", "o", "x", "y", "-", "r", "e", "v", "a", "l", "i", "d", "a", "t", "e">>
    [] s = "s-maxage" -> <<"s", "-", "m", "a", "x", "a", "g", "e">>
    [] s = "min-fresh" -> <<"m", "i", "n", "-", "f", "r", "e", "s", "h">>
    [] s = "accept-encoding" -> <<"a", "c", "c", "e", "p", "t", "-", "e", "n", "c", "o", "d", "i", "n", "g">>
    [] s = "Accept-Encoding" -> <<"A", "c", "c", "e", "p", "t", "-", "E", "n", "c", "o", "d", "i", "n", "g">>
    [] s = "*" -> <<"*">>
    [] s = "accept-encoding, *" -> <<"a", "c", "c", "e", "p", "t", "-", "e", "n", "c", "o", "d", "i", "n", "g", ",", " ", "*">>
    [] s = "x-hop" -> <<"x", "-", "h", "o", "p">>
    [] s = "X-Hop" -> <<"X", "-", "H", "o", "p">>
    [] s = "keep-alive, x-hop" -> <<"k", "e", "e", "p", "-", "a", "l", "i", "v", "e", ",", " ", "x", "-", "h", "o", "p">>
    [] s = "0" -> <<"0">>
    [] s = "1" -> <<"1">>
    [] s = "2" -> <<"2">>
    [] s = "60" -> <<"6", "0">>
    [] s = "120" -> <<"1", "2", "0">>
    [] s = "-1" -> <<"-", "1">>
    [] s = "1.5" -> <<"1", ".", "5">>
    [] s = "" -> <<>>
    [] s = "gzip" -> <<"g", "z", "i", "p">>
    [] s = "br" -> <<"b", "r">>
    [] s = "etag" -> <<"e", "t", "a", "g">>

RECURSIVE Join(_)
Join(cs) == IF cs = <<>> THEN "" ELSE Head(cs) \o Join(Tail(cs))

IsWhitespace(c) == c \in {" ", "\t", "\n", "\r"}

RECURSIVE TrimStart(_)
TrimStart(cs) ==
  IF cs # <<>> /\ IsWhitespace(Head(cs)) THEN TrimStart(Tail(cs)) ELSE cs

RECURSIVE TrimEnd(_)
TrimEnd(cs) ==
  IF cs # <<>> /\ IsWhitespace(cs[Len(cs)])
  THEN TrimEnd(SubSeq(cs, 1, Len(cs) - 1))
  ELSE cs

\* String.prototype.trim
Trim(cs) == TrimEnd(TrimStart(cs))

\* String.prototype.toLowerCase, on one character
ToLowerChar(c) ==
  CASE c = "A" -> "a" [] c = "B" -> "b" [] c = "C" -> "c" [] c = "D" -> "d"
    [] c = "E" -> "e" [] c = "F" -> "f" [] c = "G" -> "g" [] c = "H" -> "h"
    [] c = "I" -> "i" [] c = "J" -> "j" [] c = "K" -> "k" [] c = "L" -> "l"
    [] c = "M" -> "m" [] c = "N" -> "n" [] c = "O" -> "o" [] c = "P" -> "p"
    [] c = "Q" -> "q" [] c = "R" -> "r" [] c = "S" -> "s" [] c = "T" -> "t"
    [] c = "U" -> "u" [] c = "V" -> "v" [] c = "W" -> "w" [] c = "X" -> "x"
    [] c = "Y" -> "y" [] c = "Z" -> "z" [] OTHER -> c

ToLowerCase(cs) == [i \in 1..Len(cs) |-> ToLowerChar(cs[i])]

\* String.prototype.split(','): the pieces between the commas
RECURSIVE SplitComma(_, _)
SplitComma(cs, piece) ==
  IF cs = <<>> THEN <<piece>>
  ELSE IF Head(cs) = "," THEN <<piece>> \o SplitComma(Tail(cs), <<>>)
  ELSE SplitComma(Tail(cs), Append(piece, Head(cs)))

\* String.prototype.includes('*')
IncludesStar(cs) == \E i \in 1..Len(cs) : cs[i] = "*"

(***************************************************************************)
(* toSafePositiveInteger (src/unnamed/part_002).  The inputs of the model  *)
(* have at most four digits, far below Number.MAX_SAFE_INTEGER, so that    *)
(* Number.isSafeInteger fails only for NaN (the empty string).             *)
(***************************************************************************)
IsDigit(c) == c \in {"0", "1", "2", "3", "4", "5", "6", "7", "8", "9"}

DigitValue(c) ==
  CASE c = "0" -> 0 [] c = "1" -> 1 [] c = "2" -> 2 [] c = "3" -> 3
    [] c = "4" -> 4 [] c = "5" -> 5 [] c = "6" -> 6 [] c = "7" -> 7
    [] c = "8" -> 8 [] c = "9" -> 9

\* Number.parseInt(x, 10) of a string of digits; NaN (NoNumber) for ''
RECURSIVE ParseDigits(_, _)
ParseDigits(cs, acc) ==
  IF cs = <<>> THEN acc ELSE ParseDigits(Tail(cs), 10 * acc + DigitValue(Head(cs)))

ParseInt(cs) == IF cs = <<>> THEN NoNumber ELSE ParseDigits(cs, 0)

\* x is the sequence of the characters of the string, or Null or Undefined
toSafePositiveInteger(x) ==
  IF x = Null \/ x = Undefined THEN NoNumber
  ELSE IF \E i \in 1..Len(x) : ~IsDigit(x[i]) THEN NoNumber
  ELSE ParseInt(x)

(***************************************************************************)
(* parseCacheControl (src/unnamed/part_003).  The result maps directive    *)
(* names (strings) to the characters of their values.  Indices are 1-based *)
(* here: index <= Len(c) is the code's index < cacheControl.length.        *)
(***************************************************************************)
At(c, i) == IF i >= 1 /\ i <= Len(c) THEN c[i] ELSE Undefined

Slice(c, from, to) == SubSeq(c, from, to - 1)

RECURSIVE ScanTo(_, _, _)
ScanTo(c, i, stops) ==
  IF i <= Len(c) /\ c[i] \notin stops THEN ScanTo(c, i + 1, stops) ELSE i

NoStoreOnly == ("no-store" :> <<>>)

\* The loop of lines 54-70: <<index, bufferedValue>> when it is left
RECURSIVE ScanQuoted(_, _, _, _)
ScanQuoted(c, index, mark, buffered) ==
  IF index > Len(c) THEN <<index, buffered>>
  ELSE
    LET esc == c[index] = "\\"
        b1 == IF esc THEN Append(buffered, Slice(c, mark, index)) ELSE buffered
        i1 == IF esc THEN index + 1 ELSE index
        m1 == IF esc THEN index + 1 ELSE mark
    IN IF At(c, i1) = "\""
       THEN <<i1 + 1, Append(b1, Slice(c, m1, i1))>>
       ELSE ScanQuoted(c, i1 + 1, m1, b1)

RECURSIVE Flatten(_)
Flatten(ss) == IF ss = <<>> THEN <<>> ELSE Head(ss) \o Flatten(Tail(ss))

Put(result, name, value) ==
  [n \in DOMAIN result \cup {name} |-> IF n = name THEN value ELSE result[n]]

RECURSIVE ParseFrom(_, _, _)
ParseFrom(c, index, result) ==
  IF index > Len(c) THEN result
  ELSE
    LET i1 == ScanTo(c, index, {",", "="})
        name == Join(Trim(Slice(c, index, i1)))
    IN IF At(c, i1) = ","
       THEN ParseFrom(c, i1 + 1, Put(result, name, <<>>))
       ELSE IF At(c, i1 + 1) = "\""
       THEN LET q == ScanQuoted(c, i1 + 2, i1 + 2, <<>>)
                i2 == IF At(c, q[1]) = "," THEN q[1] + 1 ELSE q[1]
            IN IF name \in DOMAIN result
               THEN NoStoreOnly
               ELSE ParseFrom(c, i2, Put(result, name, Flatten(q[2])))
       ELSE LET i3 == ScanTo(c, i1 + 1, {","})
            IN IF name \in DOMAIN result
               THEN NoStoreOnly
               ELSE ParseFrom(c, i3 + 1, Put(result, name, Slice(c, i1 + 1, i3)))

EmptyMap == [n \in {} |-> <<>>]

\* cacheControl is the header's string, or Null
parseCacheControl(cacheControl) ==
  IF cacheControl = Null THEN EmptyMap ELSE ParseFrom(Chars(cacheControl), 1, EmptyMap)

\* directive in parsed
In(directive, parsed) == directive \in DOMAIN parsed

\* parsed[directive], undefined when absent
Directive(parsed, directive) ==
  IF directive \in DOMAIN parsed THEN parsed[directive] ELSE Undefined

(***************************************************************************)
(* Headers.  A header object is a function from lower-case names to        *)
(* strings; toWebHeaders (index.mts 24-38) wraps it in has/get/keys.       *)
(***************************************************************************)
NoHeaders == [n \in {} |-> ""]

\* WebHeaders.has
Has(headers, header) == header \in DOMAIN headers

\* WebHeaders.get: headers[header] ?? null
Get(headers, header) == IF header \in DOMAIN headers THEN headers[header] ELSE Null

\* a property read of a plain object: undefined when absent
Prop(headers, header) ==
  IF header \in DOMAIN headers THEN headers[header] ELSE Undefined

\* WebHeaders.keys
Keys(headers) == DOMAIN headers

(***************************************************************************)
(* Date.parse and Date.prototype.toUTCString on the dates of the model.    *)
(***************************************************************************)
DateParse(s) ==
  CASE s = "Thu, 01 Jan 1970 00:00:00 GMT" -> 0
    [] s = "Thu, 01 Jan 1970 00:00:01 GMT" -> 1000
    [] s = "Thu, 01 Jan 1970 00:00:02 GMT" -> 2000
    [] OTHER -> NoNumber

ToUTCString(ms) ==
  CASE ms \div 1000 = 0 -> "Thu, 01 Jan 1970 00:00:00 GMT"
    [] ms \div 1000 = 1 -> "Thu, 01 Jan 1970 00:00:01 GMT"
    [] ms \div 1000 = 2 -> "Thu, 01 Jan 1970 00:00:02 GMT"

Max(a, b) == IF a >= b THEN a ELSE b

(***************************************************************************)
(* Methods and status codes (index.mts 54-167).                            *)
(***************************************************************************)
isCacheableMethod(method) == method = "GET" \/ method = "HEAD"

\* line 55 taking every method for safe: a fault the invalidation property must detect
isSafeMethodAny(method) == TRUE

isSafeMethod(method) == method \in {"GET", "HEAD", "OPTIONS", "TRACE"}

isValidStatusCode(statusCode) == statusCode > 199 /\ statusCode < 600

isHeuristicallyCacheableStatusCode(statusCode) ==
  statusCode \in {200, 203, 204, 300, 301, 308, 404, 405, 410, 414, 451, 501}

isUnderstoodStatusCode(statusCode) ==
  statusCode \in {200, 201, 202, 203, 204, 205, 300, 301, 302, 303, 304, 307, 308,
                  400, 401, 403, 404, 405, 406, 407, 408, 410, 411, 412, 413, 414,
                  415, 417, 421, 426, 451, 500, 501, 502, 503, 504, 505, 506}

isFinalStatusCode(statusCode) == statusCode > 199

\* canStore without the last condition of lines 210-217: a fault the storability
\* property must detect
canStoreWithoutSignal(shared, method, statusCode, hasAuthorization, rawResponseCacheControl, hasExpires, vary, forceMustUnderstand) ==
  IF vary # Null /\ IncludesStar(Chars(vary)) THEN FALSE
  ELSE
    LET responseCacheControl == parseCacheControl(rawResponseCacheControl)
        mustUnderstand ==
          forceMustUnderstand \/ In("must-understand", responseCacheControl)
        sMaxage == toSafePositiveInteger(Directive(responseCacheControl, "s-maxage"))
    IN /\ isValidStatusCode(statusCode)
       /\ isCacheableMethod(method)
       /\ isFinalStatusCode(statusCode)
       /\ (mustUnderstand => isUnderstoodStatusCode(statusCode))
       /\ ~In("no-store", responseCacheControl)
       /\ (~shared \/ ~In("private", responseCacheControl))
       /\ (\/ ~shared
           \/ ~hasAuthorization
           \/ In("must-revalidate", responseCacheControl)
           \/ In("public", responseCacheControl)
           \/ sMaxage # NoNumber)

\* canStore without the test of lines 180-184: a fault the Vary property must detect
canStoreAnyVary(shared, method, statusCode, hasAuthorization, rawResponseCacheControl, hasExpires, vary, forceMustUnderstand) ==
  LET responseCacheControl == parseCacheControl(rawResponseCacheControl)
      mustUnderstand ==
        forceMustUnderstand \/ In("must-understand", responseCacheControl)
      sMaxage == toSafePositiveInteger(Directive(responseCacheControl, "s-maxage"))
      maxAge == toSafePositiveInteger(Directive(responseCacheControl, "max-age"))
  IN /\ isValidStatusCode(statusCode)
     /\ isCacheableMethod(method)
     /\ isFinalStatusCode(statusCode)
     /\ (mustUnderstand => isUnderstoodStatusCode(statusCode))
     /\ ~In("no-store", responseCacheControl)
     /\ (~shared \/ ~In("private", responseCacheControl))
     /\ (\/ ~shared
         \/ ~hasAuthorization
         \/ In("must-revalidate", responseCacheControl)
         \/ In("public", responseCacheControl)
         \/ sMaxage # NoNumber)
     /\ (\/ In("public", responseCacheControl)
         \/ (~shared /\ In("private", responseCacheControl))
         \/ hasExpires
         \/ maxAge # NoNumber
         \/ (shared /\ sMaxage # NoNumber)
         \/ isHeuristicallyCacheableStatusCode(statusCode))

(***************************************************************************)
(* canStore (index.mts 170-220).  vary and rawResponseCacheControl are     *)
(* strings or Null.                                                        *)
(***************************************************************************)
canStore(shared, method, statusCode, hasAuthorization, rawResponseCacheControl, hasExpires, vary, forceMustUnderstand) ==
  IF vary # Null /\ IncludesStar(Chars(vary)) THEN FALSE
  ELSE
    LET responseCacheControl == parseCacheControl(rawResponseCacheControl)
        mustUnderstand ==
          forceMustUnderstand \/ In("must-understand", responseCacheControl)
        sMaxage == toSafePositiveInteger(Directive(responseCacheControl, "s-maxage"))
        maxAge == toSafePositiveInteger(Directive(responseCacheControl, "max-age"))
    IN /\ isValidStatusCode(statusCode)
       /\ isCacheableMethod(method)
       /\ isFinalStatusCode(statusCode)
       /\ (mustUnderstand => isUnderstoodStatusCode(statusCode))
       /\ ~In("no-store", responseCacheControl)
       /\ (~shared \/ ~In("private", responseCacheControl))
       /\ (\/ ~shared
           \/ ~hasAuthorization
           \/ In("must-revalidate", responseCacheControl)
           \/ In("public", responseCacheControl)
           \/ sMaxage # NoNumber)
       /\ (\/ In("public", responseCacheControl)
           \/ (~shared /\ In("private", responseCacheControl))
           \/ hasExpires
           \/ maxAge # NoNumber
           \/ (shared /\ sMaxage # NoNumber)
           \/ isHeuristicallyCacheableStatusCode(statusCode))

\* getLifetimeMs without the test of line 254: a fault the precedence property
\* must detect
getLifetimeMsAnyCache(shared, expires, requestCacheControl, responseCacheControl, heuristicLifetime, dateNow) ==
  LET parsedRequest == parseCacheControl(requestCacheControl)
      parsedResponse == parseCacheControl(responseCacheControl)
      sharedMaxAge == toSafePositiveInteger(Directive(parsedResponse, "s-maxage"))
      maxAge == toSafePositiveInteger(Directive(parsedResponse, "max-age"))
  IN IF In("no-store", parsedRequest) THEN NoNumber
     ELSE IF In("no-store", parsedResponse) THEN NoNumber
     ELSE IF shared /\ In("private", parsedResponse) THEN NoNumber
     ELSE IF sharedMaxAge # NoNumber THEN sharedMaxAge * 1000
     ELSE IF maxAge # NoNumber THEN maxAge * 1000
     ELSE IF expires = Null THEN heuristicLifetime
     ELSE IF DateParse(expires) = NoNumber THEN NoNumber
     ELSE Max(0, DateParse(expires) - dateNow)

(***************************************************************************)
(* getLifetimeMs (index.mts 223-281): NoNumber is the code's undefined.    *)
(* dateNow is the value of Date.now().                                     *)
(***************************************************************************)
getLifetimeMs(shared, expires, requestCacheControl, responseCacheControl, heuristicLifetime, dateNow) ==
  LET parsedRequest == parseCacheControl(requestCacheControl)
      parsedResponse == parseCacheControl(responseCacheControl)
      sharedMaxAge == toSafePositiveInteger(Directive(parsedResponse, "s-maxage"))
      maxAge == toSafePositiveInteger(Directive(parsedResponse, "max-age"))
  IN IF In("no-store", parsedRequest) THEN NoNumber
     ELSE IF In("no-store", parsedResponse) THEN NoNumber
     ELSE IF shared /\ In("private", parsedResponse) THEN NoNumber
     ELSE IF shared /\ sharedMaxAge # NoNumber THEN sharedMaxAge * 1000
     ELSE IF maxAge # NoNumber THEN maxAge * 1000
     ELSE IF expires = Null THEN heuristicLifetime
     ELSE IF DateParse(expires) = NoNumber THEN NoNumber
     ELSE Max(0, DateParse(expires) - dateNow)

(***************************************************************************)
(* withoutHopByHop (index.mts 286-327).                                    *)
(***************************************************************************)
isHopByHop(header) ==
  header \in {"connection", "keep-alive", "proxy-authenticate", "proxy-authentication-info"}

withoutHopByHop(responseHeaders) ==
  LET connection == Get(responseHeaders, "connection")
      pieces == IF connection # Null THEN SplitComma(Chars(connection), <<>>) ELSE <<>>
      hopByHop == {Join(Trim(pieces[i])) : i \in 1..Len(pieces)}
      kept == {header \in Keys(responseHeaders) :
                 ~isHopByHop(header) /\ header \notin hopByHop}
  IN [header \in kept |-> responseHeaders[header]]

(***************************************************************************)
(* normalizeDateHeader, normalizeLastModified, calculateAgeMs              *)
(* (index.mts 330-378).  A null lastModified is NoNumber.                  *)
(***************************************************************************)
normalizeDateHeader(date, requestTime, dateNow) ==
  IF date # Null /\ DateParse(date) # NoNumber
     /\ DateParse(date) > requestTime /\ DateParse(date) < dateNow
  THEN DateParse(date)
  ELSE requestTime

normalizeLastModified(lastModified) ==
  IF lastModified = Null THEN NoNumber ELSE DateParse(lastModified)

calculateAgeMs(ageHeader, dateHeader, requestTime, responseTime, dateNow) ==
  LET parsedAge == toSafePositiveInteger(IF ageHeader = Null THEN Null ELSE Chars(ageHeader))
      age == (IF parsedAge = NoNumber THEN 0 ELSE parsedAge) * 1000
      date == IF dateHeader = Null THEN dateNow
              ELSE normalizeDateHeader(dateHeader, requestTime, dateNow)
      apparentAge == Max(0, responseTime - date)
      responseDelay == responseTime - requestTime
      correctedAge == age + responseDelay
  IN Max(apparentAge, correctedAge)

(***************************************************************************)
(* shouldInvalidateCache (index.mts 381-390).  The stored headers are a    *)
(* plain object (a missing one reads undefined), the incoming ones answer  *)
(* get (a missing one reads null).                                         *)
(***************************************************************************)
shouldInvalidateNever(oldMetadata, responseHeaders) == FALSE

shouldInvalidateCache(oldMetadata, responseHeaders) ==
  LET lastModified == normalizeLastModified(Get(responseHeaders, "last-modified"))
  IN \/ oldMetadata.etag # Get(responseHeaders, "etag")
     \/ oldMetadata.lastModified # lastModified
     \/ Prop(oldMetadata.responseHeaders, "content-length") # Get(responseHeaders, "content-length")
     \/ Prop(oldMetadata.responseHeaders, "content-type") # Get(responseHeaders, "content-type")
     \/ Prop(oldMetadata.responseHeaders, "content-language") # Get(responseHeaders, "content-language")
     \/ Prop(oldMetadata.responseHeaders, "content-encoding") # Get(responseHeaders, "content-encoding")

(***************************************************************************)
(* parseVary (index.mts 397-411): the request's values of the headers      *)
(* that vary names.                                                        *)
(***************************************************************************)
parseVary(vary, requestHeaders) ==
  IF vary = Null THEN NoHeaders
  ELSE LET pieces == SplitComma(Chars(vary), <<>>)
           varyHeaders == {Join(ToLowerCase(Trim(pieces[i]))) : i \in 1..Len(pieces)}
       IN [header \in varyHeaders |-> Get(requestHeaders, header)]

getMetadataKey(url) == url

getBlobKey(id, url) == <<id, url>>

(***************************************************************************)
(* The state.                                                              *)
(***************************************************************************)
\* API calls run in the slots of Procs; slot Bg runs the invalidation that
\* #get starts without awaiting it (index.mts 533).
Procs == {1, 2}
Bg == 0

VARIABLES
  now,            \* Date.now()
  shared,         \* HttpCache.shared
  metadataCache,  \* the metadata store: metadata key -> Metadata
  blobCache,      \* the blob store: blob key -> bytes or Null
  nextId,         \* the number of ids minted by crypto.randomUUID()
  proc,           \* each slot's call: its arguments, position and locals
  io,             \* each slot's body stream
  late,           \* store writes still in flight after Promise.all rejected
  lastInsert,     \* history: the most recent completed onResponse
  sticky          \* history: invalidate completed on an entry, no insertion began since

vars == <<now, shared, metadataCache, blobCache, nextId, proc, io, late, lastInsert, sticky>>

forceMustUnderstand == FALSE
heuristicLifetime == 60 * 1000

NoEntry == [undefined |-> TRUE]
NoStream == [kind |-> "null"]
Idle == [pc |-> "idle"]
NoInsert == [none |-> TRUE]

\* Map.prototype.get, set and delete
CacheGet(cache, key, missing) == IF key \in DOMAIN cache THEN cache[key] ELSE missing

CacheSet(cache, key, data) ==
  [k \in DOMAIN cache \cup {key} |-> IF k = key THEN data ELSE cache[k]]

CacheDelete(cache, key) == [k \in DOMAIN cache \ {key} |-> cache[k]]

EmptyCache == [k \in {} |-> NoEntry]

Init ==
  /\ now = 0
  /\ shared \in BOOLEAN
  /\ metadataCache = EmptyCache
  /\ blobCache = EmptyCache
  /\ nextId = 0
  /\ proc = [p \in Procs \cup {Bg} |-> Idle]
  /\ io = [p \in Procs |-> NoStream]
  /\ late = {}
  /\ lastInsert = NoInsert
  /\ sticky = FALSE

Free(p) == proc[p].pc \in {"idle", "done"}

Tick ==
  /\ now + TickMs <= MaxNow
  /\ now' = now + TickMs
  /\ UNCHANGED <<shared, metadataCache, blobCache, nextId, proc, io, late, lastInsert, sticky>>

(***************************************************************************)
(* invalidate (index.mts 509-525), in slot p.                              *)
(***************************************************************************)
InvalidateStart(url) == [op |-> "invalidate", pc |-> "invGet", url |-> url, errors |-> 0]

InvalidateCall(p, url) ==
  /\ Free(p)
  /\ proc' = [proc EXCEPT ![p] = InvalidateStart(url)]
  /\ UNCHANGED <<now, shared, metadataCache, blobCache, nextId, io, late, lastInsert, sticky>>

InvalidateDone(c, touched) ==
  [op |-> "invalidate", pc |-> "done", url |-> c.url, errors |-> c.errors,
   outcome |-> "resolved", touched |-> touched]

\* line 512 resolves; fail: the store's get rejects
InvalidateGet(p, fail) ==
  LET c == proc[p]
      metadata == CacheGet(metadataCache, getMetadataKey(c.url), NoEntry)
  IN /\ c.pc = "invGet"
     /\ IF fail
        THEN /\ proc' = [proc EXCEPT ![p] = InvalidateDone([c EXCEPT !.errors = @ + 1], FALSE)]
             /\ UNCHANGED sticky
        ELSE IF metadata = NoEntry
        THEN /\ proc' = [proc EXCEPT ![p] = InvalidateDone(c, FALSE)]
             /\ UNCHANGED sticky
        ELSE IF metadata.invalidated
        THEN /\ proc' = [proc EXCEPT ![p] = InvalidateDone(c, TRUE)]
             /\ sticky' = TRUE
        ELSE /\ proc' = [proc EXCEPT ![p] =
                  [c EXCEPT !.pc = "invSet"] @@
                  [newMetadata |-> [metadata EXCEPT !.invalidated = TRUE]]]
             /\ UNCHANGED sticky
     /\ UNCHANGED <<now, shared, metadataCache, blobCache, nextId, io, late, lastInsert>>

\* line 521 writing a copy that has also lost its lifetime: a fault the
\* flag-only property must detect
InvalidateSetExpiring(p, fail) ==
  LET c == proc[p]
  IN /\ c.pc = "invSet"
     /\ IF fail
        THEN /\ proc' = [proc EXCEPT ![p] = InvalidateDone([c EXCEPT !.errors = @ + 1], FALSE)]
             /\ UNCHANGED <<metadataCache, sticky>>
        ELSE /\ metadataCache' = CacheSet(metadataCache, getMetadataKey(c.url),
                                          [c.newMetadata EXCEPT !.lifetime = 0])
             /\ proc' = [proc EXCEPT ![p] = InvalidateDone(c, TRUE)]
             /\ sticky' = TRUE
     /\ UNCHANGED <<now, shared, blobCache, nextId, io, late, lastInsert>>

\* line 521 resolves; fail: the store's set rejects
InvalidateSet(p, fail) ==
  LET c == proc[p]
  IN /\ c.pc = "invSet"
     /\ IF fail
        THEN /\ proc' = [proc EXCEPT ![p] = InvalidateDone([c EXCEPT !.errors = @ + 1], FALSE)]
             /\ UNCHANGED <<metadataCache, sticky>>
        ELSE /\ metadataCache' = CacheSet(metadataCache, getMetadataKey(c.url), c.newMetadata)
             /\ proc' = [proc EXCEPT ![p] = InvalidateDone(c, TRUE)]
             /\ sticky' = TRUE
     /\ UNCHANGED <<now, shared, blobCache, nextId, io, late, lastInsert>>

(***************************************************************************)
(* get and #get (index.mts 528-668), in slot p.  a is the call's           *)
(* arguments [url, method, requestHeaders].                                *)
(***************************************************************************)
Miss == [kind |-> "miss"]

GatewayTimeout == [kind |-> "response", body |-> <<>>, status |-> 504, headers |-> NoHeaders]

\* lines 540-547
IsConditional(requestHeaders) ==
  \/ Has(requestHeaders, "range")
  \/ Has(requestHeaders, "if-match")
  \/ Has(requestHeaders, "if-none-match")
  \/ Has(requestHeaders, "if-modified-since")
  \/ Has(requestHeaders, "if-unmodified-since")
  \/ Has(requestHeaders, "if-range")

\* line 560 left out: a fault the cross-method property must detect
MissingBlobNever(metadata, method) == FALSE

\* line 560: the entry was stored by HEAD, it has no body for a GET
MissingBlob(metadata, method) == metadata.method = "HEAD" /\ method = "GET"

\* lines 565-569
VaryMatches(metadata, requestHeaders) ==
  \A header \in DOMAIN metadata.vary : Get(requestHeaders, header) = metadata.vary[header]

\* lines 572-573
CurrentAge(metadata, dateNow) ==
  metadata.correctedInitialAge + (dateNow - metadata.responseTime)

\* line 592 with the staleness ignored: a fault the staleness property must detect
AcceptStaleAlways(maxStale, stale) == TRUE

\* line 592
AcceptStale(maxStale, stale) == maxStale # NoNumber /\ maxStale >= stale

\* line 595
FreshEnough(currentAge, minFresh, lifetime) ==
  (currentAge + (IF minFresh = NoNumber THEN 0 ELSE minFresh)) < lifetime

\* lines 585-589 without the invalidated flag: a fault the invalidation property must detect
RevalidateIgnoringInvalidated(metadata, alwaysRevalidate, isStale, isShared) ==
  \/ alwaysRevalidate
  \/ metadata.alwaysRevalidate
  \/ (isStale /\ metadata.mustRevalidateStale)
  \/ (isShared /\ isStale /\ metadata.sharedMustRevalidateStale)

\* lines 585-589 without must-revalidate and proxy-revalidate: a fault the
\* must-revalidate property must detect
RevalidateIgnoringMustRevalidate(metadata, alwaysRevalidate, isStale, isShared) ==
  \/ metadata.invalidated
  \/ alwaysRevalidate
  \/ metadata.alwaysRevalidate

\* lines 585-589
Revalidate(metadata, alwaysRevalidate, isStale, isShared) ==
  \/ metadata.invalidated
  \/ alwaysRevalidate
  \/ metadata.alwaysRevalidate
  \/ (isStale /\ metadata.mustRevalidateStale)
  \/ (isShared /\ isStale /\ metadata.sharedMustRevalidateStale)

\* line 598: the stored response is not used
MustValidate(metadata, requestHeaders, dateNow, isShared) ==
  LET currentAge == CurrentAge(metadata, dateNow)
      stale == currentAge - metadata.lifetime
      isStale == stale >= 0
      requestCacheControl == parseCacheControl(Get(requestHeaders, "cache-control"))
      maxStale == toSafePositiveInteger(Directive(requestCacheControl, "max-stale"))
      minFresh == toSafePositiveInteger(Directive(requestCacheControl, "min-fresh"))
  IN \/ Revalidate(metadata, In("no-cache", requestCacheControl), isStale, isShared)
     \/ (minFresh # NoNumber /\ FreshEnough(currentAge, minFresh, metadata.lifetime))
     \/ (isStale /\ ~AcceptStale(maxStale, stale))

\* lines 599-622
RevalidationResult(metadata) ==
  LET ims == IF metadata.lastModified # NoNumber
             THEN ("if-modified-since" :> ToUTCString(metadata.lastModified))
             ELSE NoHeaders
      inm == IF metadata.etag # Null
             THEN ("if-none-match" :> metadata.etag)
             ELSE NoHeaders
  IN IF metadata.lastModified = NoNumber /\ metadata.etag = Null
     THEN Miss
     ELSE [kind |-> "revalidation", revalidationHeaders |-> inm @@ ims]

\* lines 641-648 with the stored Age kept: a fault the age property must detect
ResponseResultStoredAge(metadata, blob, currentAge) ==
  [kind |-> "response",
   body |-> blob,
   status |-> metadata.statusCode,
   headers |-> metadata.responseHeaders @@ ("age" :> ToString(currentAge \div 1000))]

\* lines 641-648
ResponseResult(metadata, blob, currentAge) ==
  [kind |-> "response",
   body |-> blob,
   status |-> metadata.statusCode,
   headers |-> ("age" :> ToString(currentAge \div 1000)) @@ metadata.responseHeaders]

\* get without lines 655-667: a fault the only-if-cached property must detect
OuterPassThrough(result, requestHeaders) == result

\* lines 655-667: what get makes of #get's result
Outer(result, requestHeaders) ==
  IF result = Miss /\ In("only-if-cached", parseCacheControl(Get(requestHeaders, "cache-control")))
  THEN GatewayTimeout
  ELSE result

\* The call's record once get has settled: entry and at are the metadata
\* that #get read and the value of Date.now() it used.
GetDone(a, outcome, result, entry, at) ==
  [op |-> "get", pc |-> "done", a |-> a, outcome |-> outcome,
   result |-> result, entry |-> entry, at |-> at]

\* lines 528-552: up to the await of the metadata
GetCall(p, a) ==
  /\ Free(p)
  /\ IF a.method # "GET" /\ a.method # "HEAD"
     THEN IF ~isSafeMethod(a.method)
          THEN /\ Free(Bg)
               /\ proc' = [proc EXCEPT
                    ![p] = GetDone(a, "resolved", Outer(Miss, a.requestHeaders), NoEntry, now),
                    ![Bg] = InvalidateStart(a.url)]
          ELSE proc' = [proc EXCEPT
                    ![p] = GetDone(a, "resolved", Outer(Miss, a.requestHeaders), NoEntry, now)]
     ELSE IF IsConditional(a.requestHeaders)
     THEN proc' = [proc EXCEPT
               ![p] = GetDone(a, "resolved", Outer(Miss, a.requestHeaders), NoEntry, now)]
     ELSE proc' = [proc EXCEPT ![p] = [op |-> "get", pc |-> "getMeta", a |-> a]]
  /\ UNCHANGED <<now, shared, metadataCache, blobCache, nextId, io, late, lastInsert, sticky>>

\* lines 552-623 with an eviction of the entry that has to be validated: a
\* fault the read-only property must detect
GetMetaEvicting(p, fail) ==
  LET c == proc[p]
      a == c.a
      metadata == CacheGet(metadataCache, getMetadataKey(a.url), NoEntry)
      miss == GetDone(a, "resolved", Outer(Miss, a.requestHeaders), metadata, now)
      evicts == /\ ~fail
                /\ metadata # NoEntry
                /\ ~MissingBlob(metadata, a.method)
                /\ VaryMatches(metadata, a.requestHeaders)
                /\ MustValidate(metadata, a.requestHeaders, now, shared)
  IN /\ c.pc = "getMeta"
     /\ proc' = [proc EXCEPT ![p] =
          IF fail THEN GetDone(a, "rejected", Miss, NoEntry, now)
          ELSE IF metadata = NoEntry THEN miss
          ELSE IF MissingBlob(metadata, a.method) THEN miss
          ELSE IF ~VaryMatches(metadata, a.requestHeaders) THEN miss
          ELSE IF MustValidate(metadata, a.requestHeaders, now, shared)
          THEN GetDone(a, "resolved",
                       Outer(RevalidationResult(metadata), a.requestHeaders), metadata, now)
          ELSE IF a.method = "HEAD"
          THEN GetDone(a, "resolved",
                       ResponseResult(metadata, <<>>, CurrentAge(metadata, now)), metadata, now)
          ELSE [op |-> "get", pc |-> "getBlob", a |-> a, metadata |-> metadata,
                currentAge |-> CurrentAge(metadata, now), at |-> now]]
     /\ metadataCache' = IF evicts THEN CacheDelete(metadataCache, getMetadataKey(a.url))
                         ELSE metadataCache
     /\ UNCHANGED <<now, shared, blobCache, nextId, io, late, lastInsert, sticky>>

\* lines 552-623: the metadata arrives; fail: the store's get rejects
GetMeta(p, fail) ==
  LET c == proc[p]
      a == c.a
      metadata == CacheGet(metadataCache, getMetadataKey(a.url), NoEntry)
      miss == GetDone(a, "resolved", Outer(Miss, a.requestHeaders), metadata, now)
  IN /\ c.pc = "getMeta"
     /\ proc' = [proc EXCEPT ![p] =
          IF fail THEN GetDone(a, "rejected", Miss, NoEntry, now)
          ELSE IF metadata = NoEntry THEN miss
          ELSE IF MissingBlob(metadata, a.method) THEN miss
          ELSE IF ~VaryMatches(metadata, a.requestHeaders) THEN miss
          ELSE IF MustValidate(metadata, a.requestHeaders, now, shared)
          THEN GetDone(a, "resolved",
                       Outer(RevalidationResult(metadata), a.requestHeaders), metadata, now)
          ELSE IF a.method = "HEAD"
          THEN GetDone(a, "resolved",
                       ResponseResult(metadata, <<>>, CurrentAge(metadata, now)), metadata, now)
          ELSE [op |-> "get", pc |-> "getBlob", a |-> a, metadata |-> metadata,
                currentAge |-> CurrentAge(metadata, now), at |-> now]]
     /\ UNCHANGED <<now, shared, metadataCache, blobCache, nextId, io, late, lastInsert, sticky>>

\* lines 625-648: the blob arrives; fail: the store's get rejects
GetBlob(p, fail) ==
  LET c == proc[p]
      a == c.a
      blob == CacheGet(blobCache, getBlobKey(c.metadata.id, a.url), Undefined)
  IN /\ c.pc = "getBlob"
     /\ proc' = [proc EXCEPT ![p] =
          IF fail THEN GetDone(a, "rejected", Miss, c.metadata, c.at)
          ELSE IF blob = Undefined
          THEN GetDone(a, "resolved", Outer(Miss, a.requestHeaders), c.metadata, c.at)
          ELSE GetDone(a, "resolved",
                       ResponseResult(c.metadata, blob, c.currentAge), c.metadata, c.at)]
     /\ UNCHANGED <<now, shared, metadataCache, blobCache, nextId, io, late, lastInsert, sticky>>

(***************************************************************************)
(* Body streams.  A body is a sequence of chunks, a chunk a sequence of    *)
(* bytes.  The stream argument of onResponse is null, any iterable of      *)
(* chunks ("iter"), the slow view of intoFastSlowStreams ("web") or a Node *)
(* Readable ("node").                                                      *)
(***************************************************************************)
\* concat (clone-stream.mts 252-274)
concat(chunks) == Flatten(chunks)

IterStream(chunks) == [kind |-> "iter", source |-> chunks]

\* intoFastSlowStreams(reader) (clone-stream.mts 184-250): both views empty,
\* nothing read from the source yet
TeeStream(chunks) ==
  [kind |-> "web", source |-> chunks, reading |-> FALSE, srcCanceled |-> FALSE,
   fast |-> <<>>, fastState |-> "readable", fastCanceled |-> FALSE,
   slow |-> <<>>, slowState |-> "readable", slowCanceled |-> FALSE, slowLocked |-> FALSE]

\* a Node Readable that nobody reads yet, or (didRead) that has emitted data
NodeStream(chunks, didRead) ==
  [kind |-> "node", source |-> chunks, readableDidRead |-> didRead,
   flowing |-> FALSE, listening |-> FALSE, chunks |-> <<>>, state |-> "open",
   readableAborted |-> FALSE, heard |-> FALSE]

(***************************************************************************)
(* onResponse (index.mts 670-848), in slot p.  a is the call's arguments   *)
(* [url, method, statusCode, requestHeaders, responseHeaders, requestTime, *)
(* responseTime, stream].                                                  *)
(***************************************************************************)
\* The call's record once onResponse has settled.  path names the return taken.
OnResponseDone(c, outcome, path) ==
  [op |-> "onResponse", pc |-> "done", a |-> c.a, outcome |-> outcome,
   errors |-> c.errors, path |-> path, metadata |-> c.metadata, buffer |-> c.buffer]

\* lines 771-800 with line 772 minting an id for every insertion: a fault the
\* id property must detect
BuildMetadataFreshId(a, oldMetadata, freshId, lifetime, correctedInitialAge, lastModified) ==
  LET responseCacheControl == parseCacheControl(Get(a.responseHeaders, "cache-control"))
  IN [id |-> freshId,
      responseTime |-> a.responseTime,
      lastModified |-> lastModified,
      etag |-> Get(a.responseHeaders, "etag"),
      vary |-> parseVary(Get(a.responseHeaders, "vary"), a.requestHeaders),
      method |-> IF oldMetadata # NoEntry THEN oldMetadata.method ELSE a.method,
      statusCode |-> IF oldMetadata # NoEntry THEN oldMetadata.statusCode ELSE a.statusCode,
      correctedInitialAge |-> correctedInitialAge,
      lifetime |-> lifetime,
      mustRevalidateStale |-> In("must-revalidate", responseCacheControl),
      sharedMustRevalidateStale |-> In("proxy-revalidate", responseCacheControl),
      alwaysRevalidate |-> In("no-cache", responseCacheControl),
      responseHeaders |-> withoutHopByHop(a.responseHeaders),
      invalidated |-> FALSE]

\* lines 771-800
BuildMetadata(a, oldMetadata, freshId, lifetime, correctedInitialAge, lastModified) ==
  LET responseCacheControl == parseCacheControl(Get(a.responseHeaders, "cache-control"))
  IN [id |-> IF oldMetadata # NoEntry THEN oldMetadata.id ELSE freshId,
      responseTime |-> a.responseTime,
      lastModified |-> lastModified,
      etag |-> Get(a.responseHeaders, "etag"),
      vary |-> parseVary(Get(a.responseHeaders, "vary"), a.requestHeaders),
      method |-> IF oldMetadata # NoEntry THEN oldMetadata.method ELSE a.method,
      statusCode |-> IF oldMetadata # NoEntry THEN oldMetadata.statusCode ELSE a.statusCode,
      correctedInitialAge |-> correctedInitialAge,
      lifetime |-> lifetime,
      mustRevalidateStale |-> In("must-revalidate", responseCacheControl),
      sharedMustRevalidateStale |-> In("proxy-revalidate", responseCacheControl),
      alwaysRevalidate |-> In("no-cache", responseCacheControl),
      responseHeaders |-> withoutHopByHop(a.responseHeaders),
      invalidated |-> FALSE]

\* lines 697-706
Storeable(a, isShared) ==
  canStore(isShared, a.method, a.statusCode,
           Has(a.responseHeaders, "authorization"),
           Get(a.responseHeaders, "cache-control"),
           Has(a.responseHeaders, "expires"),
           Get(a.responseHeaders, "vary"),
           forceMustUnderstand)

\* lines 713-719
Lifetime(a, isShared, dateNow) ==
  getLifetimeMs(isShared, Get(a.responseHeaders, "expires"),
                Get(a.requestHeaders, "cache-control"),
                Get(a.responseHeaders, "cache-control"),
                heuristicLifetime, dateNow)

\* line 806
NoContent(a) ==
  a.stream.kind = "null" \/ a.method = "HEAD" \/ a.statusCode = 204 \/ a.statusCode = 304

\* lines 680-723 with an eviction of the entry when canStore refuses the
\* response: a fault the rejection property must detect
OnResponseCallEvicting(p, a) ==
  LET c == [op |-> "onResponse", pc |-> "getOld", a |-> a, errors |-> 0,
            metadata |-> NoEntry, buffer |-> Undefined,
            lifetime |-> Lifetime(a, shared, now),
            correctedInitialAge |->
              calculateAgeMs(Get(a.responseHeaders, "age"), Get(a.responseHeaders, "date"),
                             a.requestTime, a.responseTime, now),
            lastModified |-> normalizeLastModified(Get(a.responseHeaders, "last-modified"))]
      done == IF a.stream.kind = "node" /\ a.stream.readableDidRead
              THEN OnResponseDone([c EXCEPT !.errors = 1], "resolved", "didRead")
              ELSE IF Has(a.responseHeaders, "content-range")
              THEN OnResponseDone(c, "resolved", "contentRange")
              ELSE IF ~Storeable(a, shared)
              THEN OnResponseDone(c, "resolved", "notStoreable")
              ELSE IF c.lifetime = NoNumber
              THEN OnResponseDone(c, "resolved", "noLifetime")
              ELSE c
  IN /\ Free(p)
     /\ proc' = [proc EXCEPT ![p] = done]
     /\ io' = [io EXCEPT ![p] = a.stream]
     /\ lastInsert' = IF done.pc = "done" THEN done ELSE lastInsert
     /\ metadataCache' = IF done.pc = "done" /\ done.path = "notStoreable"
                         THEN CacheDelete(metadataCache, getMetadataKey(a.url))
                         ELSE metadataCache
     /\ UNCHANGED <<now, shared, blobCache, nextId, late, sticky>>

\* lines 680-738: up to the await of the prior entry
OnResponseCall(p, a) ==
  LET c == [op |-> "onResponse", pc |-> "getOld", a |-> a, errors |-> 0,
            metadata |-> NoEntry, buffer |-> Undefined,
            lifetime |-> Lifetime(a, shared, now),
            correctedInitialAge |->
              calculateAgeMs(Get(a.responseHeaders, "age"), Get(a.responseHeaders, "date"),
                             a.requestTime, a.responseTime, now),
            lastModified |-> normalizeLastModified(Get(a.responseHeaders, "last-modified"))]
      done == IF a.stream.kind = "node" /\ a.stream.readableDidRead
              THEN OnResponseDone([c EXCEPT !.errors = 1], "resolved", "didRead")
              ELSE IF Has(a.responseHeaders, "content-range")
              THEN OnResponseDone(c, "resolved", "contentRange")
              ELSE IF ~Storeable(a, shared)
              THEN OnResponseDone(c, "resolved", "notStoreable")
              ELSE IF c.lifetime = NoNumber
              THEN OnResponseDone(c, "resolved", "noLifetime")
              ELSE c
  IN /\ Free(p)
     /\ proc' = [proc EXCEPT ![p] = done]
     /\ io' = [io EXCEPT ![p] = a.stream]
     /\ lastInsert' = IF done.pc = "done" THEN done ELSE lastInsert
     /\ UNCHANGED <<now, shared, metadataCache, blobCache, nextId, late, sticky>>

\* readNode and readWeb begin (line 808): the listener is attached, the slow view is locked
BeginRead(s) ==
  IF s.kind = "web" THEN [s EXCEPT !.slowLocked = TRUE]
  ELSE IF s.kind = "node" THEN [s EXCEPT !.listening = TRUE]
  ELSE s

\* lines 738-811: the prior entry arrives; fail: the store's get rejects.
\* found: oldMetadata !== undefined
OnResponseGetOld(p, fail) ==
  LET c == proc[p]
      a == c.a
      oldMetadata == CacheGet(metadataCache, getMetadataKey(a.url), NoEntry)
      tries == oldMetadata # NoEntry /\ ~(a.method = "GET" /\ a.statusCode # 304)
      invalidates == tries /\ shouldInvalidateCache(oldMetadata, a.responseHeaders)
      metadata == BuildMetadata(a, oldMetadata, nextId + 1, c.lifetime,
                                c.correctedInitialAge, c.lastModified)
  IN /\ c.pc = "getOld"
     /\ IF fail
        THEN /\ proc' = [proc EXCEPT ![p] = OnResponseDone(c, "rejected", "getFailed")]
             /\ lastInsert' = OnResponseDone(c, "rejected", "getFailed")
             /\ UNCHANGED <<nextId, io>>
        ELSE IF invalidates /\ ~oldMetadata.invalidated
        THEN /\ proc' = [proc EXCEPT ![p] = OnResponseDone(c, "resolved", "invalidated")]
             /\ lastInsert' = OnResponseDone(c, "resolved", "invalidated")
             /\ UNCHANGED <<nextId, io>>
        ELSE IF invalidates
        THEN /\ proc' = [proc EXCEPT ![p] =
                  [c EXCEPT !.pc = "markSet"] @@
                  [newMetadata |-> [oldMetadata EXCEPT !.invalidated = TRUE]]]
             /\ UNCHANGED <<nextId, io, lastInsert>>
        ELSE /\ oldMetadata = NoEntry => nextId < MaxIds
             /\ nextId' = IF oldMetadata = NoEntry THEN nextId + 1 ELSE nextId
             /\ IF NoContent(a)
                THEN /\ proc' = [proc EXCEPT ![p] =
                          [c EXCEPT !.pc = "write", !.metadata = metadata, !.buffer = Null] @@
                          [mset |-> "pending",
                           bset |-> IF a.statusCode = 304 THEN "none" ELSE "pending",
                           found |-> oldMetadata # NoEntry]]
                     /\ UNCHANGED io
                ELSE /\ proc' = [proc EXCEPT ![p] =
                          [c EXCEPT !.pc = "drain", !.metadata = metadata] @@
                          [found |-> oldMetadata # NoEntry]]
                     /\ io' = [io EXCEPT ![p] = BeginRead(@)]
             /\ UNCHANGED lastInsert
     /\ UNCHANGED <<now, shared, metadataCache, blobCache, late, sticky>>

\* line 754 resolves: the set of tryInvalidate; fail: it rejects
OnResponseMarkSet(p, fail) ==
  LET c == proc[p]
      done == OnResponseDone([c EXCEPT !.errors = IF fail THEN @ + 1 ELSE @],
                             "resolved", "invalidated")
  IN /\ c.pc = "markSet"
     /\ metadataCache' =
          IF fail THEN metadataCache
          ELSE CacheSet(metadataCache, getMetadataKey(c.a.url), c.newMetadata)
     /\ proc' = [proc EXCEPT ![p] = done]
     /\ lastInsert' = done
     /\ UNCHANGED <<now, shared, blobCache, nextId, io, late, sticky>>

\* What readNode or readWeb returns once the stream has finished:
\* the bytes, or Undefined
ReadResult(s) ==
  IF s.kind = "iter" THEN concat(s.source)
  ELSE IF s.kind = "web"
  THEN IF s.slowState = "closed" THEN concat(s.slow) ELSE Undefined
  ELSE IF s.readableAborted THEN Undefined ELSE concat(s.chunks)

\* readWeb's loop has ended, readNode's promise has resolved
ReadFinished(s) ==
  IF s.kind = "iter" THEN TRUE
  ELSE IF s.kind = "web" THEN s.slowState # "readable"
  ELSE s.state = "closed" /\ s.heard

\* lines 808-817: the body has been read; the two sets are issued
OnResponseDrained(p) ==
  LET c == proc[p]
      buffer == ReadResult(io[p])
      done == OnResponseDone(c, "resolved", "noBody")
  IN /\ c.pc = "drain"
     /\ ReadFinished(io[p])
     /\ IF buffer = Undefined
        THEN /\ proc' = [proc EXCEPT ![p] = done]
             /\ lastInsert' = done
        ELSE /\ proc' = [proc EXCEPT ![p] =
                  [c EXCEPT !.pc = "write", !.buffer = buffer] @@
                  [mset |-> "pending", bset |-> "pending"]]
             /\ UNCHANGED lastInsert
     /\ UNCHANGED <<now, shared, metadataCache, blobCache, nextId, io, late, sticky>>

\* lines 813-825.  The two sets of Promise.all settle one by one, in any
\* order; Promise.all rejects as soon as one of them does, while the other
\* may still be in flight (it moves to late).  Then the two deletes of
\* Promise.allSettled settle, and the error is reported.
Settled(c) == c.mset # "pending" /\ c.bset # "pending"

AfterSet(c) ==
  IF c.mset = "failed" \/ c.bset = "failed"
  THEN [c EXCEPT !.pc = "rollback"] @@ [mdel |-> "pending", bdel |-> "pending"]
  ELSE IF Settled(c) THEN OnResponseDone(c, "resolved", "stored")
  ELSE c

\* the sets left in flight when Promise.all rejects
LeftInFlight(c) ==
  IF c.mset = "failed" /\ c.bset = "pending"
  THEN {[store |-> "blob", url |-> c.a.url, metadata |-> c.metadata, buffer |-> c.buffer]}
  ELSE IF c.bset = "failed" /\ c.mset = "pending"
  THEN {[store |-> "metadata", url |-> c.a.url, metadata |-> c.metadata, buffer |-> c.buffer]}
  ELSE {}

\* line 815 settles; fail: the store's set rejects
OnResponseSetMetadata(p, fail) ==
  LET c == proc[p]
      c1 == [c EXCEPT !.mset = IF fail THEN "failed" ELSE "ok"]
  IN /\ c.pc = "write"
     /\ c.mset = "pending"
     /\ metadataCache' =
          IF fail THEN metadataCache
          ELSE CacheSet(metadataCache, getMetadataKey(c.a.url), c.metadata)
     /\ sticky' = IF fail THEN sticky ELSE FALSE
     /\ proc' = [proc EXCEPT ![p] = AfterSet(c1)]
     /\ late' = late \cup LeftInFlight(c1)
     /\ lastInsert' = IF AfterSet(c1).pc = "done" THEN AfterSet(c1) ELSE lastInsert
     /\ UNCHANGED <<now, shared, blobCache, nextId, io>>

\* line 816 settles; fail: the store's set rejects
OnResponseSetBlob(p, fail) ==
  LET c == proc[p]
      c1 == [c EXCEPT !.bset = IF fail THEN "failed" ELSE "ok"]
  IN /\ c.pc = "write"
     /\ c.bset = "pending"
     /\ blobCache' =
          IF fail THEN blobCache
          ELSE CacheSet(blobCache, getBlobKey(c.metadata.id, c.a.url), c.buffer)
     /\ proc' = [proc EXCEPT ![p] = AfterSet(c1)]
     /\ late' = late \cup LeftInFlight(c1)
     /\ lastInsert' = IF AfterSet(c1).pc = "done" THEN AfterSet(c1) ELSE lastInsert
     /\ UNCHANGED <<now, shared, metadataCache, nextId, io, sticky>>

\* path tells whether both deletes went through
AfterDelete(c) ==
  IF c.mdel # "pending" /\ c.bdel # "pending"
  THEN OnResponseDone([c EXCEPT !.errors = @ + 1], "resolved",
                      IF c.mdel = "ok" /\ c.bdel = "ok" THEN "rolledBack" ELSE "rollbackFailed")
  ELSE c

\* line 820 settles; fail: the store's delete rejects
OnResponseDeleteMetadata(p, fail) ==
  LET c == proc[p]
      c1 == [c EXCEPT !.mdel = IF fail THEN "failed" ELSE "ok"]
  IN /\ c.pc = "rollback"
     /\ c.mdel = "pending"
     /\ metadataCache' =
          IF fail THEN metadataCache
          ELSE CacheDelete(metadataCache, getMetadataKey(c.a.url))
     /\ sticky' = IF fail THEN sticky ELSE FALSE
     /\ proc' = [proc EXCEPT ![p] = AfterDelete(c1)]
     /\ lastInsert' = IF AfterDelete(c1).pc = "done" THEN AfterDelete(c1) ELSE lastInsert
     /\ UNCHANGED <<now, shared, blobCache, nextId, io, late>>

\* line 821 settles; fail: the store's delete rejects
OnResponseDeleteBlob(p, fail) ==
  LET c == proc[p]
      c1 == [c EXCEPT !.bdel = IF fail THEN "failed" ELSE "ok"]
  IN /\ c.pc = "rollback"
     /\ c.bdel = "pending"
     /\ blobCache' =
          IF fail THEN blobCache
          ELSE CacheDelete(blobCache, getBlobKey(c.metadata.id, c.a.url))
     /\ proc' = [proc EXCEPT ![p] = AfterDelete(c1)]
     /\ lastInsert' = IF AfterDelete(c1).pc = "done" THEN AfterDelete(c1) ELSE lastInsert
     /\ UNCHANGED <<now, shared, metadataCache, nextId, io, late, sticky>>

\* a set left in flight by a rejected Promise.all settles; fail: it rejects
LateSet(w, fail) ==
  /\ w \in late
  /\ late' = late \ {w}
  /\ metadataCache' =
       IF ~fail /\ w.store = "metadata"
       THEN CacheSet(metadataCache, getMetadataKey(w.url), w.metadata)
       ELSE metadataCache
  /\ blobCache' =
       IF ~fail /\ w.store = "blob"
       THEN CacheSet(blobCache, getBlobKey(w.metadata.id, w.url), w.buffer)
       ELSE blobCache
  /\ sticky' = IF ~fail /\ w.store = "metadata" THEN FALSE ELSE sticky
  /\ UNCHANGED <<now, shared, nextId, proc, io, lastInsert>>

(***************************************************************************)
(* The two views of intoFastSlowStreams (clone-stream.mts 184-250) and     *)
(* their consumer.  A pull of the fast view issues reader.read() and       *)
(* continues when the read settles.  Cancelling a readable stream that     *)
(* no reader holds closes it and empties its queue; cancelling one that a  *)
(* reader holds (readWeb's for await) rejects and changes nothing.         *)
(***************************************************************************)
\* line 203: pull is called and issues the read
FastPull(p) ==
  LET s == io[p]
  IN /\ s.kind = "web"
     /\ s.fastState = "readable"
     /\ ~s.reading
     /\ io' = [io EXCEPT ![p] = [s EXCEPT !.reading = TRUE]]
     /\ UNCHANGED <<now, shared, metadataCache, blobCache, nextId, proc, late, lastInsert, sticky>>

\* lines 205-214 without lines 210-212: a fault the termination property
\* must detect
TeeDoneFastOnly(s) ==
  [s EXCEPT !.reading = FALSE,
            !.fastState = IF ~s.fastCanceled /\ @ = "readable" THEN "closed" ELSE @]

\* lines 205-214: read.done
TeeDone(s) ==
  [s EXCEPT !.reading = FALSE,
            !.fastState = IF ~s.fastCanceled /\ @ = "readable" THEN "closed" ELSE @,
            !.slowState = IF ~s.slowCanceled /\ @ = "readable" THEN "closed" ELSE @]

\* lines 217-226 without the copy of lines 221-224: a fault the duplication
\* property must detect
TeeChunkFastOnly(s) ==
  [s EXCEPT !.reading = FALSE,
            !.source = Tail(@),
            !.fast = IF ~s.fastCanceled THEN Append(@, Head(s.source)) ELSE @]

\* lines 217-226: a chunk
TeeChunk(s) ==
  [s EXCEPT !.reading = FALSE,
            !.source = Tail(@),
            !.fast = IF ~s.fastCanceled THEN Append(@, Head(s.source)) ELSE @,
            !.slow = IF ~s.fastCanceled /\ ~s.slowCanceled THEN Append(@, Head(s.source)) ELSE @]

\* lines 227-235 without lines 232-234: a fault the error property must detect
TeeErrorFastOnly(s) ==
  [s EXCEPT !.reading = FALSE,
            !.fastState = IF ~s.fastCanceled /\ @ = "readable" THEN "errored" ELSE @]

\* lines 227-235: the read rejected
TeeError(s) ==
  [s EXCEPT !.reading = FALSE,
            !.fastState = IF ~s.fastCanceled /\ @ = "readable" THEN "errored" ELSE @,
            !.slowState = IF ~s.slowCanceled /\ @ = "readable" THEN "errored" ELSE @]

\* the read settles; fail: the source errors.  A cancelled source answers done.
FastRead(p, fail) ==
  LET s == io[p]
  IN /\ s.kind = "web"
     /\ s.reading
     /\ io' = [io EXCEPT ![p] =
          IF s.srcCanceled \/ (~fail /\ s.source = <<>>) THEN TeeDone(s)
          ELSE IF fail THEN TeeError(s)
          ELSE TeeChunk(s)]
     /\ UNCHANGED <<now, shared, metadataCache, blobCache, nextId, proc, late, lastInsert, sticky>>

\* lines 194-196 cancelling the source as well: a fault the slow-cancel
\* property must detect
SlowCancelledWithSource(s) ==
  IF s.slowLocked \/ s.slowState # "readable" THEN s
  ELSE [s EXCEPT !.slowState = "closed", !.slow = <<>>, !.slowCanceled = TRUE,
                 !.srcCanceled = TRUE]

\* slow.cancel(reason) (line 242; lines 194-196 when it goes through)
SlowCancelled(s) ==
  IF s.slowLocked \/ s.slowState # "readable" THEN s
  ELSE [s EXCEPT !.slowState = "closed", !.slow = <<>>, !.slowCanceled = TRUE]

\* lines 237-245: the consumer cancels the fast view
FastCancel(p) ==
  LET s == io[p]
  IN /\ s.kind = "web"
     /\ s.fastState = "readable"
     /\ io' = [io EXCEPT ![p] =
          SlowCancelled([s EXCEPT !.fastCanceled = TRUE, !.fastState = "closed",
                                  !.srcCanceled = TRUE])]
     /\ UNCHANGED <<now, shared, metadataCache, blobCache, nextId, proc, late, lastInsert, sticky>>

\* the holder of the slow view cancels it (lines 194-196); a view that the
\* insertion path is reading is locked and cannot be cancelled from outside
SlowCancel(p) ==
  LET s == io[p]
  IN /\ s.kind = "web"
     /\ s.slowState = "readable"
     /\ ~s.slowLocked
     /\ io' = [io EXCEPT ![p] = SlowCancelled(s)]
     /\ UNCHANGED <<now, shared, metadataCache, blobCache, nextId, proc, late, lastInsert, sticky>>

\* intoFastSlowStreams(reader) is called on a source of the given chunks, and
\* its views are not handed to onResponse
TeeCall(p, chunks) ==
  /\ Free(p)
  /\ io[p].kind = "null"
  /\ io' = [io EXCEPT ![p] = TeeStream(chunks)]
  /\ UNCHANGED <<now, shared, metadataCache, blobCache, nextId, proc, late, lastInsert, sticky>>

(***************************************************************************)
(* A Node Readable read by readNode (clone-stream.mts 335-359): it flows   *)
(* once readNode or the response's own consumer listens for 'data', and    *)
(* closes after its end or when destroyed.                                 *)
(***************************************************************************)
\* the response's own consumer starts to listen for 'data'
NodeFlow(p) ==
  LET s == io[p]
  IN /\ s.kind = "node"
     /\ s.state = "open"
     /\ ~s.flowing
     /\ io' = [io EXCEPT ![p] = [s EXCEPT !.flowing = TRUE]]
     /\ UNCHANGED <<now, shared, metadataCache, blobCache, nextId, proc, late, lastInsert, sticky>>

\* 'data': readNode's queue (line 340) gets the chunk if it listens already (line 344)
NodeData(p) ==
  LET s == io[p]
  IN /\ s.kind = "node"
     /\ s.state = "open"
     /\ s.listening \/ s.flowing
     /\ s.source # <<>>
     /\ io' = [io EXCEPT ![p] =
          [s EXCEPT !.source = Tail(@),
                    !.chunks = IF s.listening THEN Append(@, Head(s.source)) ELSE @]]
     /\ UNCHANGED <<now, shared, metadataCache, blobCache, nextId, proc, late, lastInsert, sticky>>

\* 'close' (lines 348-356): after the end of the data, or (destroyed) before it
NodeClose(p, destroyed) ==
  LET s == io[p]
  IN /\ s.kind = "node"
     /\ s.state = "open"
     /\ destroyed \/ ((s.listening \/ s.flowing) /\ s.source = <<>>)
     /\ io' = [io EXCEPT ![p] =
          [s EXCEPT !.state = "closed", !.readableAborted = destroyed, !.heard = s.listening]]
     /\ UNCHANGED <<now, shared, metadataCache, blobCache, nextId, proc, late, lastInsert, sticky>>

(***************************************************************************)
(* The calls the environment makes.                                        *)
(***************************************************************************)
BodyA == << <<1>>, <<2>> >>
BodyB == << <<3>> >>

Lookup(method, requestHeaders) ==
  [url |-> "u", method |-> method, requestHeaders |-> requestHeaders]

PlainLookup == Lookup("GET", NoHeaders)

Lookups ==
  {PlainLookup,
   Lookup("GET", "cache-control" :> "max-stale=1"),
   Lookup("GET", "cache-control" :> "only-if-cached"),
   Lookup("GET", "if-none-match" :> "v1"),
   Lookup("GET", "accept-encoding" :> "gzip"),
   Lookup("HEAD", NoHeaders),
   Lookup("HEAD", "cache-control" :> "max-stale=1")}

CacheControl(value, etag) == ("cache-control" :> value) @@ ("etag" :> etag)

\* a response requested and received at time t
Response(method, statusCode, requestHeaders, responseHeaders, stream, t) ==
  [url |-> "u", method |-> method, statusCode |-> statusCode,
   requestHeaders |-> requestHeaders, responseHeaders |-> responseHeaders,
   requestTime |-> t, responseTime |-> t, stream |-> stream]

Responses(t) ==
  {Response("GET", 200, NoHeaders, CacheControl("max-age=1", "v1"), IterStream(BodyA), t),
   Response("GET", 200, NoHeaders, CacheControl("max-age=60", "v1"), IterStream(BodyA), t),
   Response("GET", 200, "accept-encoding" :> "gzip",
            ("cache-control" :> "max-age=60") @@ ("vary" :> "accept-encoding"),
            IterStream(BodyB), t),
   Response("GET", 200, NoHeaders, "cache-control" :> "max-age=1", IterStream(BodyA), t),
   Response("GET", 200, "authorization" :> "secret", "cache-control" :> "max-age=60",
            IterStream(BodyA), t),
   Response("GET", 304, NoHeaders, CacheControl("max-age=60", "v1"), NoStream, t),
   Response("GET", 304, NoHeaders, CacheControl("max-age=60", "v2"), NoStream, t),
   Response("HEAD", 200, NoHeaders, CacheControl("max-age=1", "v1"), NoStream, t),
   Response("HEAD", 200, NoHeaders, CacheControl("max-age=60", "v1"), NoStream, t)}

(***************************************************************************)
(* Spec: one caller, which awaits each call before the next; the stores    *)
(* never fail; bodies are plain iterables.                                 *)
(***************************************************************************)
Next ==
  \/ Tick
  \/ InvalidateCall(1, "u")
  \/ InvalidateGet(1, FALSE)
  \/ InvalidateSet(1, FALSE)
  \/ \E a \in Lookups : GetCall(1, a)
  \/ GetMeta(1, FALSE)
  \/ GetBlob(1, FALSE)
  \/ \E a \in Responses(now) : OnResponseCall(1, a)
  \/ OnResponseGetOld(1, FALSE)
  \/ OnResponseMarkSet(1, FALSE)
  \/ OnResponseDrained(1)
  \/ OnResponseSetMetadata(1, FALSE)
  \/ OnResponseSetBlob(1, FALSE)

Spec == Init /\ [][Next]_vars

(***************************************************************************)
(* SpecStream: one caller; the stores never fail; the body is the slow     *)
(* view of intoFastSlowStreams, whose fast view the response's consumer    *)
(* reads or cancels, or a Node Readable.                                   *)
(***************************************************************************)
StreamResponses(t) ==
  {Response("GET", 200, NoHeaders, CacheControl("max-age=60", "v1"), s, t) :
     s \in {TeeStream(BodyA), NodeStream(BodyA, FALSE), NodeStream(BodyA, TRUE)}}

NextStream ==
  \/ \E a \in StreamResponses(now) : OnResponseCall(1, a)
  \/ OnResponseGetOld(1, FALSE)
  \/ OnResponseDrained(1)
  \/ OnResponseSetMetadata(1, FALSE)
  \/ OnResponseSetBlob(1, FALSE)
  \/ FastPull(1)
  \/ FastRead(1, FALSE)
  \/ FastRead(1, TRUE)
  \/ FastCancel(1)
  \/ NodeFlow(1)
  \/ NodeData(1)
  \/ NodeClose(1, FALSE)
  \/ NodeClose(1, TRUE)
  \/ GetCall(1, PlainLookup)
  \/ GetMeta(1, FALSE)
  \/ GetBlob(1, FALSE)

SpecStream == Init /\ [][NextStream]_vars

(***************************************************************************)
(* SpecConc: two callers whose calls interleave, over stores that never    *)
(* fail.  Each response has its own headers and its own body.              *)
(***************************************************************************)
ConcResponses(t) ==
  {Response("GET", 200, NoHeaders, CacheControl("max-age=60", "v1"), IterStream(BodyA), t),
   Response("GET", 200, NoHeaders, CacheControl("max-age=60", "v2"), IterStream(BodyB), t)}

NextConc ==
  \/ \E p \in Procs : \E a \in ConcResponses(now) : OnResponseCall(p, a)
  \/ \E p \in Procs : OnResponseGetOld(p, FALSE)
  \/ \E p \in Procs : OnResponseDrained(p)
  \/ \E p \in Procs : OnResponseSetMetadata(p, FALSE)
  \/ \E p \in Procs : OnResponseSetBlob(p, FALSE)
  \/ \E p \in Procs : GetCall(p, PlainLookup)
  \/ \E p \in Procs : GetMeta(p, FALSE)
  \/ \E p \in Procs : GetBlob(p, FALSE)

SpecConc == Init /\ [][NextConc]_vars

(***************************************************************************)
(* SpecFail: one caller, over stores whose every get, set and delete may   *)
(* reject.                                                                 *)
(***************************************************************************)
FailResponses(t) ==
  {Response("GET", 200, NoHeaders, CacheControl("max-age=60", "v1"), IterStream(BodyA), t),
   Response("GET", 304, NoHeaders, CacheControl("max-age=60", "v2"), NoStream, t)}

NextFail ==
  \/ \E a \in FailResponses(now) : Cardinality(late) < MaxLate /\ OnResponseCall(1, a)
  \/ \E fail \in BOOLEAN : OnResponseGetOld(1, fail)
  \/ \E fail \in BOOLEAN : OnResponseMarkSet(1, fail)
  \/ OnResponseDrained(1)
  \/ \E fail \in BOOLEAN : OnResponseSetMetadata(1, fail)
  \/ \E fail \in BOOLEAN : OnResponseSetBlob(1, fail)
  \/ \E fail \in BOOLEAN : OnResponseDeleteMetadata(1, fail)
  \/ \E fail \in BOOLEAN : OnResponseDeleteBlob(1, fail)
  \/ \E w \in late : \E fail \in BOOLEAN : LateSet(w, fail)
  \/ InvalidateCall(1, "u")
  \/ InvalidateGet(1, FALSE)
  \/ InvalidateSet(1, FALSE)
  \/ GetCall(1, PlainLookup)
  \/ GetMeta(1, FALSE)
  \/ GetBlob(1, FALSE)

SpecFail == Init /\ [][NextFail]_vars

(***************************************************************************)
(* SpecDirective: one caller, over stores that never fail; the lookups     *)
(* carry the request directives max-stale, min-fresh and max-age, the      *)
(* stored responses must-revalidate and proxy-revalidate.                  *)
(***************************************************************************)
DirectiveLookups ==
  {PlainLookup,
   Lookup("GET", "cache-control" :> "max-stale=1"),
   Lookup("GET", "cache-control" :> "min-fresh=1000"),
   Lookup("GET", "cache-control" :> "max-age=0"),
   Lookup("GET", "cache-control" :> "only-if-cached"),
   Lookup("GET", "if-none-match" :> "v1"),
   Lookup("HEAD", "cache-control" :> "max-stale=1")}

DirectiveResponses(t) ==
  {Response("GET", 200, NoHeaders, CacheControl("max-age=1", "v1"), IterStream(BodyA), t),
   Response("GET", 200, NoHeaders, CacheControl("max-age=60", "v1"), IterStream(BodyA), t),
   Response("GET", 200, NoHeaders, CacheControl("max-age=1, must-revalidate", "v1"),
            IterStream(BodyA), t),
   Response("GET", 200, NoHeaders, "cache-control" :> "max-age=1, must-revalidate",
            IterStream(BodyA), t),
   Response("GET", 200, NoHeaders, CacheControl("max-age=1, proxy-revalidate", "v1"),
            IterStream(BodyA), t),
   Response("HEAD", 200, NoHeaders, CacheControl("max-age=1, must-revalidate", "v1"),
            NoStream, t),
   Response("GET", 200, NoHeaders, CacheControl("max-age=0", "v1"), IterStream(BodyA), t)}

NextDirective ==
  \/ Tick
  \/ \E a \in DirectiveLookups : GetCall(1, a)
  \/ GetMeta(1, FALSE)
  \/ GetBlob(1, FALSE)
  \/ \E a \in DirectiveResponses(now) : OnResponseCall(1, a)
  \/ OnResponseGetOld(1, FALSE)
  \/ OnResponseDrained(1)
  \/ OnResponseSetMetadata(1, FALSE)
  \/ OnResponseSetBlob(1, FALSE)

SpecDirective == Init /\ [][NextDirective]_vars

(***************************************************************************)
(* SpecRefresh: one caller, over stores that never fail, inserting and     *)
(* invalidating; a response received at time t may be handed to onResponse *)
(* then or later, and again.                                               *)
(***************************************************************************)
ContentHeaders ==
  ("content-length" :> "2") @@ ("content-type" :> "text/plain")
  @@ ("content-language" :> "en") @@ ("content-encoding" :> "identity")

RefreshResponses(t) ==
  {Response("GET", 200, NoHeaders, CacheControl("max-age=60", "v1"), IterStream(BodyA), t),
   Response("GET", 200, NoHeaders, "expires" :> "Thu, 01 Jan 1970 00:00:02 GMT",
            IterStream(BodyA), t),
   Response("GET", 200, NoHeaders, ("cache-control" :> "max-age=60") @@ ContentHeaders,
            IterStream(BodyA), t),
   Response("GET", 304, NoHeaders, CacheControl("max-age=60", "v1"), NoStream, t),
   Response("HEAD", 200, NoHeaders, CacheControl("max-age=60", "v1"), NoStream, t),
   Response("HEAD", 200, NoHeaders, ("cache-control" :> "max-age=60") @@ ContentHeaders,
            NoStream, t),
   Response("GET", 200, NoHeaders, CacheControl("max-age=60", "v1") @@ ContentHeaders,
            IterStream(BodyA), t),
   Response("HEAD", 200, NoHeaders, CacheControl("max-age=60", "v1") @@ ContentHeaders,
            NoStream, t)}

NextRefresh ==
  \/ Tick
  \/ InvalidateCall(1, "u")
  \/ InvalidateGet(1, FALSE)
  \/ InvalidateSet(1, FALSE)
  \/ \E t \in {0, now} : \E a \in RefreshResponses(t) : OnResponseCall(1, a)
  \/ OnResponseGetOld(1, FALSE)
  \/ OnResponseMarkSet(1, FALSE)
  \/ OnResponseDrained(1)
  \/ OnResponseSetMetadata(1, FALSE)
  \/ OnResponseSetBlob(1, FALSE)

SpecRefresh == Init /\ [][NextRefresh]_vars

(***************************************************************************)
(* SpecParse: parseCacheControl applied to Cache-Control field values made *)
(* of up to MaxDirectives directives, each a bare name, name=1 or          *)
(* name="1", separated by ", ".                                            *)
(***************************************************************************)
DirectiveNames == {"max-age", "no-cache"}

DirectiveText(name, form) ==
  Chars(name) \o (CASE form = "bare" -> <<>>
                     [] form = "token" -> <<"=", "1">>
                     [] form = "quoted" -> <<"=", "\"", "1", "\"">>)

DirectiveSet ==
  {[name |-> name, text |-> DirectiveText(name, form)] :
     name \in DirectiveNames, form \in {"bare", "token", "quoted"}}

DirectiveLists == UNION {[1..n -> DirectiveSet] : n \in 1..MaxDirectives}

\* the field value: the directives' texts joined by ", "
RECURSIVE FieldValue(_)
FieldValue(directives) ==
  IF Len(directives) = 1 THEN directives[1].text
  ELSE directives[1].text \o <<",", " ">> \o FieldValue(Tail(directives))

\* parseCacheControl is called with the field value of the directives
ParseCall(p, directives) ==
  /\ Free(p)
  /\ proc' = [proc EXCEPT ![p] =
       [op |-> "parseCacheControl", pc |-> "parse", directives |-> directives,
        cacheControl |-> FieldValue(directives)]]
  /\ UNCHANGED <<now, shared, metadataCache, blobCache, nextId, io, late, lastInsert, sticky>>

\* lines 20-104: it returns
ParseReturn(p) ==
  /\ proc[p].pc = "parse"
  /\ proc' = [proc EXCEPT ![p] =
       [op |-> "parseCacheControl", pc |-> "done", directives |-> proc[p].directives,
        cacheControl |-> proc[p].cacheControl,
        result |-> ParseFrom(proc[p].cacheControl, 1, EmptyMap)]]
  /\ UNCHANGED <<now, shared, metadataCache, blobCache, nextId, io, late, lastInsert, sticky>>

NextParse ==
  \/ \E directives \in DirectiveLists : ParseCall(1, directives)
  \/ ParseReturn(1)

SpecParse == Init /\ [][NextParse]_vars

(***************************************************************************)
(* SpecHop: one caller, over stores that never fail; the responses and     *)
(* the requests carry Connection headers.                                  *)
(***************************************************************************)
HopResponses(t) ==
  {Response("GET", 200, NoHeaders,
            ("cache-control" :> "max-age=60") @@ ("connection" :> "x-hop") @@ ("x-hop" :> "1"),
            IterStream(BodyA), t),
   Response("GET", 200, NoHeaders,
            ("cache-control" :> "max-age=60") @@ ("connection" :> "X-Hop") @@ ("x-hop" :> "1"),
            IterStream(BodyA), t),
   Response("GET", 200, NoHeaders,
            ("cache-control" :> "max-age=60") @@ ("connection" :> "keep-alive, x-hop")
            @@ ("keep-alive" :> "timeout=5") @@ ("x-hop" :> "1"),
            IterStream(BodyA), t),
   Response("GET", 200, "connection" :> "x-hop",
            ("cache-control" :> "max-age=60") @@ ("x-hop" :> "1"),
            IterStream(BodyA), t)}

NextHop ==
  \/ Tick
  \/ \E a \in HopResponses(now) : OnResponseCall(1, a)
  \/ OnResponseGetOld(1, FALSE)
  \/ OnResponseDrained(1)
  \/ OnResponseSetMetadata(1, FALSE)
  \/ OnResponseSetBlob(1, FALSE)
  \/ GetCall(1, PlainLookup)
  \/ GetMeta(1, FALSE)
  \/ GetBlob(1, FALSE)

SpecHop == Init /\ [][NextHop]_vars

(***************************************************************************)
(* SpecVary: one caller, over stores that never fail; the responses carry  *)
(* Vary headers, among them the wildcard.                                  *)
(***************************************************************************)
VaryResponses(t) ==
  {Response("GET", 200, "accept-encoding" :> "gzip",
            ("cache-control" :> "max-age=60") @@ ("vary" :> "Accept-Encoding"),
            IterStream(BodyA), t),
   Response("GET", 200, "accept-encoding" :> "gzip",
            ("cache-control" :> "max-age=60") @@ ("vary" :> "*"),
            IterStream(BodyB), t),
   Response("GET", 200, "accept-encoding" :> "gzip",
            ("cache-control" :> "max-age=60") @@ ("vary" :> "accept-encoding, *"),
            IterStream(BodyB), t),
   Response("GET", 304, NoHeaders,
            ("cache-control" :> "max-age=60") @@ ("vary" :> "*"), NoStream, t),
   Response("HEAD", 200, NoHeaders,
            ("cache-control" :> "max-age=60") @@ ("vary" :> "*"), NoStream, t),
   Response("GET", 200, NoHeaders, CacheControl("max-age=60", "v1"), IterStream(BodyA), t)}

NextVary ==
  \/ Tick
  \/ \E a \in VaryResponses(now) : OnResponseCall(1, a)
  \/ OnResponseGetOld(1, FALSE)
  \/ OnResponseDrained(1)
  \/ OnResponseSetMetadata(1, FALSE)
  \/ OnResponseSetBlob(1, FALSE)
  \/ \E a \in {PlainLookup, Lookup("GET", "accept-encoding" :> "gzip")} : GetCall(1, a)
  \/ GetMeta(1, FALSE)
  \/ GetBlob(1, FALSE)

SpecVary == Init /\ [][NextVary]_vars

(***************************************************************************)
(* SpecLookup: one caller, over stores that never fail, which looks up     *)
(* with every kind of method, with and without only-if-cached; the         *)
(* invalidation that an unsafe method queues (void this.invalidate, line   *)
(* 533) runs in the background slot.                                       *)
(***************************************************************************)
OnlyIfCached == "cache-control" :> "only-if-cached"

MethodLookups ==
  {Lookup(method, requestHeaders) :
     method \in {"GET", "HEAD", "POST", "OPTIONS"},
     requestHeaders \in {NoHeaders, OnlyIfCached}}
  \cup {Lookup("GET", OnlyIfCached @@ ("if-none-match" :> "v1"))}

AgedResponses(t) ==
  {Response("GET", 200, NoHeaders, CacheControl("max-age=60", "v1") @@ ("age" :> "1"),
            IterStream(BodyA), t),
   Response("GET", 200, NoHeaders, CacheControl("max-age=1", "v1"), IterStream(BodyA), t),
   Response("GET", 200, NoHeaders, "cache-control" :> "max-age=1", IterStream(BodyB), t),
   Response("HEAD", 200, NoHeaders, CacheControl("max-age=60", "v1"), NoStream, t)}

NextLookup ==
  \/ Tick
  \/ \E a \in MethodLookups : GetCall(1, a)
  \/ GetMeta(1, FALSE)
  \/ GetBlob(1, FALSE)
  \/ InvalidateGet(Bg, FALSE)
  \/ InvalidateSet(Bg, FALSE)
  \/ \E a \in AgedResponses(now) : OnResponseCall(1, a)
  \/ OnResponseGetOld(1, FALSE)
  \/ OnResponseDrained(1)
  \/ OnResponseSetMetadata(1, FALSE)
  \/ OnResponseSetBlob(1, FALSE)

SpecLookup == Init /\ [][NextLookup]_vars

(***************************************************************************)
(* SpecUnsafe: one caller, over stores that never fail, which looks up     *)
(* with safe and unsafe methods.  The stores answer the background         *)
(* invalidation: an awaited promise of a store that never fails resolves,  *)
(* and nothing can cancel the continuation (weak fairness of its steps).   *)
(***************************************************************************)
UnsafeLookups ==
  {Lookup(method, NoHeaders) : method \in {"GET", "POST", "DELETE", "PURGE", "OPTIONS", "TRACE"}}

UnsafeResponses(t) ==
  {Response("GET", 200, NoHeaders, CacheControl("max-age=60", "v1"), IterStream(BodyA), t),
   Response("POST", 200, NoHeaders, CacheControl("max-age=60", "v1"), IterStream(BodyB), t)}

NextUnsafe ==
  \/ Tick
  \/ \E a \in UnsafeLookups : GetCall(1, a)
  \/ GetMeta(1, FALSE)
  \/ GetBlob(1, FALSE)
  \/ InvalidateGet(Bg, FALSE)
  \/ InvalidateSet(Bg, FALSE)
  \/ \E a \in UnsafeResponses(now) : OnResponseCall(1, a)
  \/ OnResponseGetOld(1, FALSE)
  \/ OnResponseDrained(1)
  \/ OnResponseSetMetadata(1, FALSE)
  \/ OnResponseSetBlob(1, FALSE)

SpecUnsafe ==
  /\ Init
  /\ [][NextUnsafe]_vars
  /\ WF_vars(InvalidateGet(Bg, FALSE))
  /\ WF_vars(InvalidateSet(Bg, FALSE))

(***************************************************************************)
(* SpecTee: the two views of intoFastSlowStreams, read and cancelled by    *)
(* their holders, over a source that may fail; the slow view is either     *)
(* held by the caller or drained by an insertion.                          *)
(***************************************************************************)
NextTee ==
  \/ TeeCall(1, BodyA)
  \/ FastPull(1)
  \/ FastRead(1, FALSE)
  \/ FastRead(1, TRUE)
  \/ FastCancel(1)
  \/ SlowCancel(1)
  \/ OnResponseCall(1, Response("GET", 200, NoHeaders, CacheControl("max-age=60", "v1"),
                                TeeStream(BodyA), now))
  \/ OnResponseGetOld(1, FALSE)
  \/ OnResponseDrained(1)
  \/ OnResponseSetMetadata(1, FALSE)
  \/ OnResponseSetBlob(1, FALSE)

SpecTee == Init /\ [][NextTee]_vars

(***************************************************************************)
(* SpecPolicy: canStore and getLifetimeMs called as functions, once in a   *)
(* behaviour, on every combination of the inputs below, at any time; the   *)
(* argument shared is the cache's.                                         *)
(***************************************************************************)
PolicyCacheControls ==
  {Null, "max-age=60", "max-age", "no-store", "no-cache", "public", "private",
   "s-maxage=1", "s-maxage", "must-understand", "must-revalidate",
   "max-age=60, max-age=120"}

CanStoreInputs ==
  [method : {"GET", "HEAD", "POST"},
   statusCode : {199, 200, 201, 206, 599, 600},
   hasAuthorization : BOOLEAN, rawResponseCacheControl : PolicyCacheControls,
   hasExpires : BOOLEAN, vary : {Null, "accept-encoding", "accept-encoding, *"},
   forceMustUnderstand : BOOLEAN]

GetLifetimeInputs ==
  [expires : {Null, "Thu, 01 Jan 1970 00:00:00 GMT", "Thu, 01 Jan 1970 00:00:02 GMT", "soon"},
   requestCacheControl : {Null, "no-store", "no-cache", "max-age=0"},
   responseCacheControl : PolicyCacheControls \cup {"max-age=0"},
   heuristicLifetime : {heuristicLifetime}]

\* lines 170-220: canStore is called and returns
CanStoreCall(p, x) ==
  /\ proc[p] = Idle
  /\ proc' = [proc EXCEPT ![p] =
       [op |-> "canStore", pc |-> "done", x |-> x,
        result |-> canStore(shared, x.method, x.statusCode, x.hasAuthorization,
                            x.rawResponseCacheControl, x.hasExpires, x.vary,
                            x.forceMustUnderstand)]]
  /\ UNCHANGED <<now, shared, metadataCache, blobCache, nextId, io, late, lastInsert, sticky>>

\* lines 223-281: getLifetimeMs is called and returns; at is Date.now()
GetLifetimeCall(p, x) ==
  /\ proc[p] = Idle
  /\ proc' = [proc EXCEPT ![p] =
       [op |-> "getLifetimeMs", pc |-> "done", x |-> x, at |-> now,
        result |-> getLifetimeMs(shared, x.expires, x.requestCacheControl,
                                 x.responseCacheControl, x.heuristicLifetime, now)]]
  /\ UNCHANGED <<now, shared, metadataCache, blobCache, nextId, io, late, lastInsert, sticky>>

NextPolicy ==
  \/ Tick
  \/ \E x \in CanStoreInputs : CanStoreCall(1, x)
  \/ \E x \in GetLifetimeInputs : GetLifetimeCall(1, x)

SpecPolicy == Init /\ [][NextPolicy]_vars

(***************************************************************************)
(* SpecStatus: one caller, over stores that never fail; the responses to   *)
(* GET have different status codes and bodies, and 304 responses arrive    *)
(* with and without an entry in the store.                                 *)
(***************************************************************************)
StatusResponses(t) ==
  {Response("GET", 200, NoHeaders, CacheControl("max-age=60", "v1"), IterStream(BodyA), t),
   Response("GET", 404, NoHeaders, CacheControl("max-age=60", "v1"), IterStream(BodyB), t),
   Response("GET", 304, NoHeaders, CacheControl("max-age=60", "v1"), NoStream, t)}

NextStatus ==
  \/ Tick
  \/ \E a \in StatusResponses(now) : OnResponseCall(1, a)
  \/ OnResponseGetOld(1, FALSE)
  \/ OnResponseDrained(1)
  \/ OnResponseSetMetadata(1, FALSE)
  \/ OnResponseSetBlob(1, FALSE)
  \/ GetCall(1, PlainLookup)
  \/ GetMeta(1, FALSE)
  \/ GetBlob(1, FALSE)

SpecStatus == Init /\ [][NextStatus]_vars

(***************************************************************************)
(* SpecReject: one caller, over stores that never fail; besides a response *)
(* that is stored, the responses are the ones that onResponse turns away   *)
(* before it reads the store: a Node body that was already read, a         *)
(* Content-Range, a response that canStore refuses and one for which       *)
(* getLifetimeMs returns nothing.                                          *)
(***************************************************************************)
RejectedResponses(t) ==
  {Response("GET", 200, NoHeaders, CacheControl("max-age=60", "v1"), IterStream(BodyA), t),
   Response("GET", 200, NoHeaders, CacheControl("max-age=60", "v1"), NodeStream(BodyB, TRUE), t),
   Response("GET", 200, NoHeaders,
            CacheControl("max-age=60", "v1") @@ ("content-range" :> "bytes 0-0/1"),
            IterStream(BodyB), t),
   Response("GET", 200, NoHeaders, "cache-control" :> "no-store", IterStream(BodyB), t),
   Response("GET", 200, "cache-control" :> "no-store", CacheControl("max-age=60", "v1"),
            IterStream(BodyB), t)}

NextReject ==
  \/ Tick
  \/ \E a \in RejectedResponses(now) : OnResponseCall(1, a)
  \/ OnResponseGetOld(1, FALSE)
  \/ OnResponseDrained(1)
  \/ OnResponseSetMetadata(1, FALSE)
  \/ OnResponseSetBlob(1, FALSE)
  \/ GetCall(1, PlainLookup)
  \/ GetMeta(1, FALSE)
  \/ GetBlob(1, FALSE)

SpecReject == Init /\ [][NextReject]_vars

(***************************************************************************)
(* SpecCapture: the use of fetch.mts 55-96.  One caller hands the slow     *)
(* view of intoFastSlowStreams to onResponse and the fast view to the      *)
(* application, which pulls it or cancels it; the stores never fail.  One  *)
(* response is stored, the other is refused by canStore.  The application  *)
(* keeps reading (a pull is answered, and the next one issued), promise    *)
(* continuations run and store operations complete: as long as one of      *)
(* these steps can be taken, one of them eventually is (weak fairness of   *)
(* their disjunction).  Nothing obliges the caller to start a call or to   *)
(* cancel.                                                                 *)
(***************************************************************************)
CaptureResponses(t) ==
  {Response("GET", 200, NoHeaders, CacheControl("max-age=60", "v1"), TeeStream(BodyA), t),
   Response("GET", 200, NoHeaders, "cache-control" :> "no-store", TeeStream(BodyA), t)}

\* a call can draw an id if it needs one
IdAvailable(url) == nextId < MaxIds \/ getMetadataKey(url) \in DOMAIN metadataCache

NextCapture ==
  \/ \E a \in CaptureResponses(now) : IdAvailable(a.url) /\ OnResponseCall(1, a)
  \/ OnResponseGetOld(1, FALSE)
  \/ OnResponseDrained(1)
  \/ OnResponseSetMetadata(1, FALSE)
  \/ OnResponseSetBlob(1, FALSE)
  \/ FastPull(1)
  \/ FastRead(1, FALSE)
  \/ FastRead(1, TRUE)
  \/ FastCancel(1)

SpecCapture ==
  /\ Init
  /\ [][NextCapture]_vars
  /\ WF_vars(\/ FastPull(1)
             \/ FastRead(1, FALSE)
             \/ FastRead(1, TRUE)
             \/ OnResponseDrained(1)
             \/ OnResponseSetMetadata(1, FALSE)
             \/ OnResponseSetBlob(1, FALSE)
             \/ OnResponseGetOld(1, FALSE))

(***************************************************************************)
(* Vocabulary of the properties.                                           *)
(***************************************************************************)
Entry(cache, url) == CacheGet(cache, getMetadataKey(url), NoEntry)

BlobOf(cache, entry, url) == CacheGet(cache, getBlobKey(entry.id, url), Undefined)

HasValidator(entry) == entry.etag # Null \/ entry.lastModified # NoNumber

\* the result is the stored response, not a miss, a revalidation or the 504
IsStoredResponse(result) == result.kind = "response" /\ result # GatewayTimeout

\* this step completes a call of op in slot p
Completes(p, op) ==
  /\ proc'[p] # proc[p]
  /\ proc'[p].pc = "done"
  /\ proc'[p].op = op

\* the call is an onResponse that has issued its two sets (index.mts 814-817)
IssuedSets(c) ==
  /\ c.pc \in {"write", "rollback", "done"}
  /\ c.op = "onResponse"
  /\ c.pc = "done" => c.path \in {"stored", "rolledBack", "rollbackFailed"}

\* the request's max-stale, in seconds, covers a staleness given in milliseconds
Covers(requestHeaders, stale) ==
  LET maxStale == toSafePositiveInteger(
        Directive(parseCacheControl(Get(requestHeaders, "cache-control")), "max-stale"))
  IN maxStale # NoNumber /\ maxStale * 1000 >= stale

\* the headers that the storing response's vary names are the same in both requests
SameVaryHeaders(responseHeaders, storing, looking) ==
  \A header \in DOMAIN parseVary(Get(responseHeaders, "vary"), storing) :
    Get(looking, header) = Get(storing, header)

\* a request that asks for nothing but the stored response
PlainRequest(requestHeaders) ==
  /\ ~IsConditional(requestHeaders)
  /\ ~In("no-cache", parseCacheControl(Get(requestHeaders, "cache-control")))
  /\ ~In("only-if-cached", parseCacheControl(Get(requestHeaders, "cache-control")))

\* the insertion: a storable GET response with a body that completed without error
InsertedBody(r) ==
  /\ r # NoInsert
  /\ r.outcome = "resolved"
  /\ r.errors = 0
  /\ r.a.method = "GET"
  /\ r.a.statusCode \notin {204, 304}
  /\ r.a.stream.kind # "null"
  /\ ~Has(r.a.responseHeaders, "content-range")
  /\ Storeable(r.a, shared)
  /\ Lifetime(r.a, shared, r.a.responseTime) # NoNumber

(***************************************************************************)
(* C1  Round-trip.  Once onResponse has completed without error for a      *)
(* storable GET response with a body (status not 204 or 304), whatever the *)
(* store held before, a plain GET lookup of the same URL whose vary-named  *)
(* headers equal the storing request's, made while the entry is fresh and  *)
(* not invalidated or marked no-cache, returns a response whose body is    *)
(* the complete input body.                                                *)
(***************************************************************************)
C1_RoundTrip ==
  [][\A p \in Procs :
       LET entry == Entry(metadataCache, "u")
           looking == proc'[p].a
       IN (/\ Completes(p, "get")
           /\ looking.method = "GET"
           /\ InsertedBody(lastInsert)
           /\ PlainRequest(looking.requestHeaders)
           /\ SameVaryHeaders(lastInsert.a.responseHeaders, lastInsert.a.requestHeaders,
                              looking.requestHeaders)
           /\ entry # NoEntry
           /\ ~entry.invalidated
           /\ ~entry.alwaysRevalidate
           /\ CurrentAge(entry, now) < entry.lifetime)
          => (/\ proc'[p].outcome = "resolved"
              /\ proc'[p].result.kind = "response"
              /\ proc'[p].result.body = concat(lastInsert.a.stream.source))]_vars

(***************************************************************************)
(* C2  Staleness safety.  A GET or HEAD lookup that found an entry whose   *)
(* current age is at least its lifetime returns the stored response only   *)
(* if the request carries a valid max-stale covering the staleness;        *)
(* otherwise it returns a revalidation request, which needs a stored       *)
(* validator, or a miss (the 504 under only-if-cached).                    *)
(***************************************************************************)
C2_StalenessSafety ==
  \A p \in Procs :
    (/\ proc[p].pc = "done"
     /\ proc[p].op = "get"
     /\ proc[p].outcome = "resolved"
     /\ proc[p].entry # NoEntry
     /\ CurrentAge(proc[p].entry, proc[p].at) >= proc[p].entry.lifetime)
    => LET result == proc[p].result
           stale == CurrentAge(proc[p].entry, proc[p].at) - proc[p].entry.lifetime
       IN /\ IsStoredResponse(result) => Covers(proc[p].a.requestHeaders, stale)
          /\ ~IsStoredResponse(result) =>
               \/ result = Miss
               \/ result = GatewayTimeout
               \/ result.kind = "revalidation" /\ HasValidator(proc[p].entry)

\* a stale entry was served under max-stale
C2_Witness ==
  \E p \in Procs :
    /\ proc[p].pc = "done"
    /\ proc[p].op = "get"
    /\ proc[p].entry # NoEntry
    /\ CurrentAge(proc[p].entry, proc[p].at) >= proc[p].entry.lifetime
    /\ IsStoredResponse(proc[p].result)
    /\ Covers(proc[p].a.requestHeaders, 0)

(***************************************************************************)
(* C3  Scenario F.  When an entry with ETag "v1" exists and onResponse     *)
(* receives a GET 304 with headers {etag: "v1", cache-control: max-age=60} *)
(* and a null body, the entry's responseTime, lifetime and responseHeaders *)
(* become those of the 304, and its id, method, statusCode and the blob    *)
(* under (id, url) stay as they were.                                      *)
(***************************************************************************)
ScenarioF(a) ==
  /\ a.method = "GET"
  /\ a.statusCode = 304
  /\ a.responseHeaders = CacheControl("max-age=60", "v1")
  /\ a.stream = NoStream

C3_Freshening ==
  [][\A p \in Procs :
       LET old == Entry(metadataCache, "u")
           new == Entry(metadataCache', "u")
           a == proc'[p].a
       IN (/\ Completes(p, "onResponse")
           /\ ScenarioF(a)
           /\ old # NoEntry
           /\ old.etag = "v1")
          => (/\ new # NoEntry
              /\ new.responseTime = a.responseTime
              /\ new.lifetime = 60 * 1000
              /\ new.responseHeaders = a.responseHeaders
              /\ new.id = old.id
              /\ new.method = old.method
              /\ new.statusCode = old.statusCode
              /\ BlobOf(blobCache', new, "u") = BlobOf(blobCache, old, "u"))]_vars

(***************************************************************************)
(* C4  Scenario G.  When an entry with ETag "v1" that is not invalidated   *)
(* exists and onResponse receives a 304 with ETag "v2", the entry is       *)
(* marked invalidated, and the next GET lookup of the URL returns a        *)
(* revalidation request.                                                   *)
(***************************************************************************)
ScenarioG(a) ==
  /\ a.statusCode = 304
  /\ Get(a.responseHeaders, "etag") = "v2"

C4_Mismatch ==
  [][\A p \in Procs :
       LET old == Entry(metadataCache, "u")
           new == Entry(metadataCache', "u")
       IN /\ (/\ Completes(p, "onResponse")
              /\ ScenarioG(proc'[p].a)
              /\ old # NoEntry
              /\ old.etag = "v1"
              /\ ~old.invalidated)
             => (new # NoEntry /\ new.invalidated)
          /\ (/\ Completes(p, "get")
              /\ proc'[p].a.method = "GET"
              /\ PlainRequest(proc'[p].a.requestHeaders)
              /\ lastInsert # NoInsert
              /\ ScenarioG(lastInsert.a)
              /\ lastInsert.path = "invalidated"
              /\ old # NoEntry
              /\ old.etag = "v1")
             => proc'[p].result.kind = "revalidation"]_vars

(***************************************************************************)
(* C5  Sticky invalidation.  After invalidate(url) has completed on an     *)
(* existing entry, and until onResponse rewrites the entry, every GET      *)
(* lookup of the URL with matching vary headers returns a revalidation     *)
(* request if the entry stores an ETag or Last-Modified, else a miss, and  *)
(* never a response.                                                       *)
(***************************************************************************)
StickyLookup(p) ==
  /\ sticky
  /\ Completes(p, "get")
  /\ proc'[p].a.method = "GET"
  /\ Entry(metadataCache, "u") # NoEntry
  /\ VaryMatches(Entry(metadataCache, "u"), proc'[p].a.requestHeaders)

C5_Sticky ==
  [][\A p \in Procs :
       StickyLookup(p) =>
         /\ proc'[p].outcome = "resolved"
         /\ IF HasValidator(Entry(metadataCache, "u"))
            THEN proc'[p].result.kind = "revalidation"
            ELSE proc'[p].result = Miss]_vars

\* C5 as it holds: the revalidation request needs, besides a validator, an
\* entry not stored by HEAD and a request without conditional headers;
\* the miss is the 504 response when the request says only-if-cached.
C5_StickyAmended ==
  [][\A p \in Procs :
       StickyLookup(p) =>
         LET entry == Entry(metadataCache, "u")
             requestHeaders == proc'[p].a.requestHeaders
             result == proc'[p].result
         IN /\ proc'[p].outcome = "resolved"
            /\ ~IsStoredResponse(result)
            /\ IF /\ HasValidator(entry)
                  /\ entry.method # "HEAD"
                  /\ ~IsConditional(requestHeaders)
               THEN result.kind = "revalidation"
               ELSE IF In("only-if-cached", parseCacheControl(Get(requestHeaders, "cache-control")))
               THEN result = GatewayTimeout
               ELSE result = Miss]_vars

\* a lookup after invalidate was answered with a revalidation request
C5_Witness ==
  /\ sticky
  /\ proc[1].pc = "done"
  /\ proc[1].op = "get"
  /\ proc[1].a.method = "GET"
  /\ proc[1].result.kind = "revalidation"
  /\ proc[1].entry # NoEntry
  /\ proc[1].entry.invalidated

(***************************************************************************)
(* C6  Scenario D.  In a shared cache, onResponse for a GET 200 whose      *)
(* request carries Authorization and whose response Cache-Control is only  *)
(* max-age=60 writes no metadata entry and no blob.                        *)
(***************************************************************************)
ScenarioD(a) ==
  /\ a.method = "GET"
  /\ a.statusCode = 200
  /\ Has(a.requestHeaders, "authorization")
  /\ Get(a.responseHeaders, "cache-control") = "max-age=60"

C6_Authorization ==
  [][\A p \in Procs :
       (/\ shared
        /\ proc[p].pc \notin {"idle", "done"}
        /\ proc[p].op = "onResponse"
        /\ ScenarioD(proc[p].a)
        /\ proc'[p] # proc[p])
       => (metadataCache' = metadataCache /\ blobCache' = blobCache)]_vars

(***************************************************************************)
(* C7  No partial body is cached.  Whenever the body source does not       *)
(* deliver its complete byte sequence to the insertion (the source errors, *)
(* the Node stream is destroyed or read by others before its end, the fast *)
(* view is cancelled), onResponse writes neither metadata nor blob: the    *)
(* buffer that onResponse hands to the two sets is the complete body.      *)
(***************************************************************************)
C7_NoPartialBody ==
  \A p \in Procs :
    (/\ IssuedSets(proc[p])
     /\ ~NoContent(proc[p].a))
    => proc[p].buffer = concat(proc[p].a.stream.source)

(***************************************************************************)
(* C8  Concurrent insertions never mix entries.  Under any interleaving of *)
(* onResponse calls and lookups of the same URL, a response that a lookup  *)
(* returns carries the status, the headers and the body of one and the     *)
(* same onResponse call.                                                   *)
(***************************************************************************)
WrittenByOne(result, a) ==
  /\ result.status = a.statusCode
  /\ \A header \in DOMAIN withoutHopByHop(a.responseHeaders) :
       Prop(result.headers, header) = a.responseHeaders[header]
  /\ result.body = concat(a.stream.source)

C8_NeverMixed ==
  \A p \in Procs :
    (/\ proc[p].pc = "done"
     /\ proc[p].op = "get"
     /\ IsStoredResponse(proc[p].result))
    => \E a \in ConcResponses(0) : WrittenByOne(proc[p].result, a)

(***************************************************************************)
(* C9  Rollback.  If the metadata set or the blob set fails during an      *)
(* insertion then, once onResponse has completed, neither the metadata     *)
(* entry of the URL nor the blob under (id, url) is in the store, and the  *)
(* failure has reached the error hook.  Stated here for the insertions     *)
(* whose two deletions both went through.                                  *)
(***************************************************************************)
C9_Rollback ==
  \A p \in Procs :
    (/\ proc[p].pc = "done"
     /\ proc[p].op = "onResponse"
     /\ proc[p].path = "rolledBack")
    => (/\ Entry(metadataCache, proc[p].a.url) = NoEntry
        /\ BlobOf(blobCache, proc[p].metadata, proc[p].a.url) = Undefined
        /\ proc[p].errors > 0)

(***************************************************************************)
(* C10  onResponse never fails towards the caller.  Whatever get, set or   *)
(* delete of either store rejects, the promise that onResponse returned    *)
(* resolves, and the failure has reached the error hook.                   *)
(***************************************************************************)
C10_NeverRejects ==
  \A p \in Procs :
    (/\ proc[p].pc = "done"
     /\ proc[p].op = "onResponse")
    => (/\ proc[p].outcome = "resolved"
        /\ proc[p].path \in {"getFailed", "rolledBack", "rollbackFailed"} => proc[p].errors > 0)

\* the value of a request directive, as toSafePositiveInteger reads it
RequestDirective(requestHeaders, directive) ==
  toSafePositiveInteger(
    Directive(parseCacheControl(Get(requestHeaders, "cache-control")), directive))

\* a get that has settled after reading an entry
LookedUp(c) ==
  /\ c.pc = "done"
  /\ c.op = "get"
  /\ c.outcome = "resolved"
  /\ c.entry # NoEntry

(***************************************************************************)
(* C11  min-fresh is strict.  A lookup whose request carries min-fresh=N   *)
(* never returns the stored response when the entry's current age plus N   *)
(* is at least its lifetime.                                               *)
(***************************************************************************)
C11_MinFreshStrict ==
  \A p \in Procs :
    LET c == proc[p]
        minFresh == RequestDirective(c.a.requestHeaders, "min-fresh")
    IN (/\ LookedUp(c)
        /\ minFresh # NoNumber
        /\ CurrentAge(c.entry, c.at) + minFresh >= c.entry.lifetime)
       => ~IsStoredResponse(c.result)

(***************************************************************************)
(* C12  Request max-age is strict.  A lookup whose request carries         *)
(* max-age=N never returns a stored response whose current age exceeds N   *)
(* seconds.                                                                *)
(***************************************************************************)
C12_MaxAgeStrict ==
  \A p \in Procs :
    LET c == proc[p]
        maxAge == RequestDirective(c.a.requestHeaders, "max-age")
    IN (/\ LookedUp(c)
        /\ maxAge # NoNumber
        /\ CurrentAge(c.entry, c.at) > maxAge * 1000)
       => ~IsStoredResponse(c.result)

(***************************************************************************)
(* C13  Scenario E.  An entry stored with must-revalidate (or with         *)
(* proxy-revalidate when shared) is, once its current age is at least its  *)
(* lifetime, never returned as a response by a lookup, whatever max-stale  *)
(* the request carries: the lookup returns a revalidation request with     *)
(* If-None-Match and If-Modified-Since from the stored validators, or a    *)
(* miss if none is stored.                                                 *)
(***************************************************************************)
\* this step completes a lookup of an entry that must be revalidated once stale, and is stale
ScenarioE(p) ==
  LET entry == Entry(metadataCache, "u")
  IN /\ Completes(p, "get")
     /\ proc'[p].outcome = "resolved"
     /\ entry # NoEntry
     /\ VaryMatches(entry, proc'[p].a.requestHeaders)
     /\ entry.mustRevalidateStale \/ (shared /\ entry.sharedMustRevalidateStale)
     /\ CurrentAge(entry, proc'[p].at) >= entry.lifetime

C14_CrossMethod ==
  \A p \in Procs :
    (/\ LookedUp(proc[p])
     /\ proc[p].a.method = "GET"
     /\ proc[p].entry.method = "HEAD")
    => /\ ~IsStoredResponse(proc[p].result)
       /\ proc[p].result.kind # "revalidation"
       /\ proc[p].result = Outer(Miss, proc[p].a.requestHeaders)

\* a GET lookup read an entry stored under HEAD and missed
C14_Witness ==
  /\ LookedUp(proc[1])
  /\ proc[1].a.method = "GET"
  /\ proc[1].entry.method = "HEAD"
  /\ proc[1].result = Miss

(***************************************************************************)
(* C15  Entry id stability.  Across any sequence of onResponse and         *)
(* invalidate calls for a URL, the id of the stored entry never changes    *)
(* while a metadata entry for the URL exists, and an id is minted only     *)
(* when no entry exists at the insertion.                                  *)
(***************************************************************************)
C15_IdStable ==
  [][/\ (Entry(metadataCache, "u") # NoEntry /\ Entry(metadataCache', "u") # NoEntry)
        => Entry(metadataCache', "u").id = Entry(metadataCache, "u").id
     /\ nextId' # nextId => Entry(metadataCache, "u") = NoEntry]_vars

\* an insertion has replaced an existing entry (stored by HEAD, replaced by
\* a GET response) after an id was minted
C15_Witness ==
  /\ lastInsert # NoInsert
  /\ lastInsert.path = "stored"
  /\ lastInsert.a.method = "GET"
  /\ Entry(metadataCache, "u") # NoEntry
  /\ Entry(metadataCache, "u").method = "HEAD"
  /\ Entry(metadataCache, "u").responseTime = lastInsert.a.responseTime
  /\ Entry(metadataCache, "u").id = nextId

(***************************************************************************)
(* C17  Exact-validator freshening.  When an entry exists and a 304 or a   *)
(* HEAD response arrives whose ETag, Last-Modified, Content-Length,        *)
(* Content-Type, Content-Language and Content-Encoding are not all equal   *)
(* to the stored ones, the entry's id, responseTime, lifetime, statusCode, *)
(* method, responseHeaders and blob stay as they are: at most the          *)
(* invalidated flag changes.                                               *)
(***************************************************************************)
\* a validator of the response differs from the stored one (absent equals absent)
ValidatorsDiffer(entry, responseHeaders) ==
  \/ entry.etag # Get(responseHeaders, "etag")
  \/ entry.lastModified # normalizeLastModified(Get(responseHeaders, "last-modified"))
  \/ \E header \in {"content-length", "content-type", "content-language", "content-encoding"} :
       Get(entry.responseHeaders, header) # Get(responseHeaders, header)

\* slot p runs onResponse for a 304 or a HEAD response
Freshening(c) ==
  /\ c.pc \notin {"idle", "done"}
  /\ c.op = "onResponse"
  /\ c.a.statusCode = 304 \/ c.a.method = "HEAD"

C17_ExactValidators ==
  [][\A p \in Procs :
       LET old == Entry(metadataCache, "u")
           new == Entry(metadataCache', "u")
       IN (/\ Freshening(proc[p])
           /\ old # NoEntry
           /\ ValidatorsDiffer(old, proc[p].a.responseHeaders))
          => /\ new # NoEntry
             /\ [new EXCEPT !.invalidated = old.invalidated] = old
             /\ blobCache' = blobCache]_vars

\* a 304 whose ETag differs from the stored one has been handled
C17_Witness ==
  /\ lastInsert # NoInsert
  /\ lastInsert.outcome = "resolved"
  /\ lastInsert.a.statusCode = 304
  /\ lastInsert.path = "invalidated"
  /\ Entry(metadataCache, "u") # NoEntry
  /\ Entry(metadataCache, "u").etag # Get(lastInsert.a.responseHeaders, "etag")

(***************************************************************************)
(* C16  Idempotence of insertion.  Two consecutive onResponse calls with   *)
(* identical inputs leave the metadata store and the blob store as a       *)
(* single call does: no step of the second call changes either store.      *)
(***************************************************************************)
\* c repeats the inputs of the last onResponse, and no call changed the
\* stores in between (an onResponse that took the path "invalidated" is
\* repeated with the same effect whether or not invalidate ran in between)
Repeats(c) ==
  /\ c.pc \notin {"idle", "done"}
  /\ c.op = "onResponse"
  /\ lastInsert # NoInsert
  /\ lastInsert.a = c.a
  /\ ~sticky \/ lastInsert.path = "invalidated"

C16_Idempotent ==
  [][\A p \in Procs :
       Repeats(proc[p]) => (metadataCache' = metadataCache /\ blobCache' = blobCache)]_vars

(***************************************************************************)
(* C18  HEAD refresh needs validators.  A HEAD response changes an         *)
(* existing entry (other than its invalidated flag) or its blob only if    *)
(* it carries an ETag or a Last-Modified equal to the stored one; a HEAD   *)
(* response without validators never changes an existing entry.            *)
(***************************************************************************)
\* the response carries a validator, and the entry stores the same
CarriesStoredValidator(entry, responseHeaders) ==
  \/ Has(responseHeaders, "etag") /\ Get(responseHeaders, "etag") = entry.etag
  \/ /\ normalizeLastModified(Get(responseHeaders, "last-modified")) # NoNumber
     /\ normalizeLastModified(Get(responseHeaders, "last-modified")) = entry.lastModified

\* c is an onResponse that read an existing entry at line 738
FoundEntry(c) ==
  /\ c.pc \in {"markSet", "drain", "write"}
  /\ c.pc # "markSet" => c.found

C18_HeadNeedsValidators ==
  [][\A p \in Procs :
       LET c == proc[p]
           old == Entry(metadataCache, "u")
           new == Entry(metadataCache', "u")
       IN (/\ FoundEntry(c)
           /\ c.a.method = "HEAD"
           /\ old # NoEntry
           /\ ~CarriesStoredValidator(old, c.a.responseHeaders))
          => /\ new # NoEntry
             /\ [new EXCEPT !.invalidated = old.invalidated] = old
             /\ blobCache' = blobCache]_vars

(***************************************************************************)
(* C19  Duplicate directives collapse.  For every Cache-Control field      *)
(* value in which a directive name occurs more than once, in any position, *)
(* with or without a value, followed by a comma or not, parseCacheControl  *)
(* returns exactly {"no-store": ""}, so that a response with such a field  *)
(* is never stored.                                                        *)
(***************************************************************************)
\* a directive name occurs more than once
HasDuplicate(directives) ==
  \E i, j \in 1..Len(directives) : i < j /\ directives[i].name = directives[j].name

C19_DuplicatesCollapse ==
  \A p \in Procs :
    (/\ proc[p].pc = "done"
     /\ proc[p].op = "parseCacheControl"
     /\ HasDuplicate(proc[p].directives))
    => /\ proc[p].result = NoStoreOnly
       /\ In("no-store", proc[p].result)

(***************************************************************************)
(* C20  Hop-by-hop stripping.  The responseHeaders of every stored entry   *)
(* contain none of Connection, Keep-Alive, Proxy-Authenticate and          *)
(* Proxy-Authentication-Info, nor any field whose name is listed in the    *)
(* Connection header of the response or of the request, in whatever letter *)
(* case the name is listed.                                                *)
(***************************************************************************)
\* the field names that a Connection header lists, in lower case
Listed(headers) ==
  IF ~Has(headers, "connection") THEN {}
  ELSE LET pieces == SplitComma(Chars(headers["connection"]), <<>>)
       IN {Join(ToLowerCase(Trim(pieces[i]))) : i \in 1..Len(pieces)}

C20_HopByHop ==
  \A p \in Procs :
    LET c == proc[p]
    IN (/\ c.pc \in {"write", "done"}
        /\ IssuedSets(c)
        /\ Entry(metadataCache, "u") = c.metadata)
       => \A header \in DOMAIN c.metadata.responseHeaders :
            /\ header \notin {"connection", "keep-alive", "proxy-authenticate",
                              "proxy-authentication-info"}
            /\ header \notin Listed(c.a.responseHeaders)
            /\ header \notin Listed(c.a.requestHeaders)

(***************************************************************************)
(* C21  Vary: * is never stored.  canStore refuses every response whose    *)
(* Vary contains '*': an onResponse call with such a response returns      *)
(* without storing, and in every reachable state no vary key of the stored *)
(* entry contains '*'.                                                     *)
(***************************************************************************)
VaryHasStar(responseHeaders) ==
  Has(responseHeaders, "vary") /\ IncludesStar(Chars(responseHeaders["vary"]))

C21_VaryStarNeverStored ==
  /\ LET entry == Entry(metadataCache, "u")
     IN entry # NoEntry => \A header \in DOMAIN entry.vary : ~IncludesStar(Chars(header))
  /\ \A p \in Procs :
       LET c == proc[p]
       IN (c.pc \notin {"idle"} /\ c.op = "onResponse" /\ VaryHasStar(c.a.responseHeaders))
          => /\ c.pc = "done"
             /\ c.path = "notStoreable"
             /\ ~Storeable(c.a, shared)

\* a response with Vary: * has been refused while an entry with a vary key is stored
C21_Witness ==
  /\ proc[1].pc = "done"
  /\ proc[1].op = "onResponse"
  /\ VaryHasStar(proc[1].a.responseHeaders)
  /\ proc[1].path = "notStoreable"
  /\ Entry(metadataCache, "u") # NoEntry
  /\ DOMAIN Entry(metadataCache, "u").vary = {"accept-encoding"}

(***************************************************************************)
(* C22  only-if-cached.  A lookup whose request Cache-Control contains     *)
(* only-if-cached never returns a miss: whenever #get returns undefined,   *)
(* get returns the synthesized response with status 504, empty body and    *)
(* empty headers.  It returns that response in no other case: a            *)
(* revalidation request or a stored response is passed through unchanged.  *)
(***************************************************************************)
HasOnlyIfCached(requestHeaders) ==
  In("only-if-cached", parseCacheControl(Get(requestHeaders, "cache-control")))

\* the step of slot p that settles a get is one at which #get returns undefined
InnerMiss(p) ==
  LET c == proc[p]
      a == proc'[p].a
      entry == Entry(metadataCache, a.url)
  IN IF Free(p)
     THEN ~isCacheableMethod(a.method) \/ IsConditional(a.requestHeaders)
     ELSE IF c.pc = "getMeta"
     THEN \/ entry = NoEntry
          \/ (entry.method = "HEAD" /\ a.method = "GET")
          \/ ~VaryMatches(entry, a.requestHeaders)
          \/ (MustValidate(entry, a.requestHeaders, now, shared) /\ ~HasValidator(entry))
     ELSE BlobOf(blobCache, c.metadata, a.url) = Undefined

C22_OnlyIfCached ==
  [][\A p \in Procs :
       (Completes(p, "get") /\ proc'[p].outcome = "resolved")
       => LET c == proc'[p]
              onlyIfCached == HasOnlyIfCached(c.a.requestHeaders)
          IN /\ onlyIfCached => c.result # Miss
             /\ (onlyIfCached /\ InnerMiss(p)) =>
                  c.result = [kind |-> "response", body |-> <<>>, status |-> 504,
                              headers |-> NoHeaders]
             /\ c.result = GatewayTimeout => (onlyIfCached /\ InnerMiss(p))
             /\ ~InnerMiss(p) =>
                  \/ /\ c.result.kind = "revalidation"
                     /\ c.result = RevalidationResult(c.entry)
                  \/ /\ c.result.kind = "response"
                     /\ c.result.status = c.entry.statusCode
                     /\ c.result.body =
                          (IF c.a.method = "HEAD" THEN <<>>
                           ELSE BlobOf(blobCache, c.entry, c.a.url))]_vars

\* lookups with only-if-cached have returned the 504 (for an unsafe method, a
\* stale entry without validator) and have passed a revalidation request through
C22_Witness ==
  /\ proc[1].pc = "done"
  /\ proc[1].op = "get"
  /\ HasOnlyIfCached(proc[1].a.requestHeaders)
  /\ proc[1].result = GatewayTimeout
  /\ proc[1].entry # NoEntry
  /\ proc[1].a.method = "GET"
  /\ ~HasValidator(proc[1].entry)

(***************************************************************************)
(* C23  Unsafe-method invalidation.  A lookup with a method outside {GET,  *)
(* HEAD, OPTIONS, TRACE} is a miss of #get and queues the invalidation of  *)
(* the URL: the stored entry, if any, eventually has invalidated = true,   *)
(* and the invalidation never deletes it.  A lookup with OPTIONS or TRACE  *)
(* is a miss, queues nothing and leaves the stores unchanged.              *)
(***************************************************************************)
UnsafeLookup(c) ==
  /\ c.pc = "done"
  /\ c.op = "get"
  /\ c.a.method \notin {"GET", "HEAD", "OPTIONS", "TRACE"}

C23_UnsafeInvalidates ==
  /\ [][\A p \in Procs :
          (Completes(p, "get") /\ proc'[p].a.method \notin {"GET", "HEAD"})
          => /\ proc'[p].result = Miss
             /\ Free(p)
             /\ metadataCache' = metadataCache
             /\ blobCache' = blobCache
             /\ IF proc'[p].a.method \in {"OPTIONS", "TRACE"}
                THEN proc'[Bg] = proc[Bg]
                ELSE /\ proc'[Bg].pc = "invGet"
                     /\ proc'[Bg].url = proc'[p].a.url]_vars
  /\ [][(proc'[Bg] # proc[Bg] /\ Entry(metadataCache, "u") # NoEntry)
        => /\ Entry(metadataCache', "u") # NoEntry
           /\ blobCache' = blobCache
           /\ metadataCache' # metadataCache => Entry(metadataCache', "u").invalidated]_vars
  /\ \A p \in Procs :
       (UnsafeLookup(proc[p]) /\ Entry(metadataCache, "u") # NoEntry)
       ~> (Entry(metadataCache, "u") # NoEntry /\ Entry(metadataCache, "u").invalidated)

\* after a POST lookup the background invalidation has marked the stored entry
C23_Witness ==
  /\ UnsafeLookup(proc[1])
  /\ proc[1].a.method = "POST"
  /\ proc[Bg].pc = "done"
  /\ proc[Bg].touched
  /\ Entry(metadataCache, "u") # NoEntry
  /\ Entry(metadataCache, "u").invalidated

(***************************************************************************)
(* C24  Age on hit.  For every stored response that a lookup returns, the  *)
(* current age is corrected_initial_age + (now - response_time) of the     *)
(* entry read, now being Date.now() when #get computes it, and the         *)
(* returned headers are the stored ones with Age = floor(current_age /     *)
(* 1000) in place of any stored Age; the lookup leaves the stored entry    *)
(* as it was.                                                              *)
(***************************************************************************)
C24_AgeOnHit ==
  [][\A p \in Procs :
       (Completes(p, "get") /\ IsStoredResponse(proc'[p].result))
       => LET c == proc'[p]
              stored == c.entry.responseHeaders
              currentAge == c.entry.correctedInitialAge + (c.at - c.entry.responseTime)
          IN /\ DOMAIN c.result.headers = DOMAIN stored \cup {"age"}
             /\ c.result.headers["age"] = ToString(currentAge \div 1000)
             /\ \A header \in DOMAIN stored \ {"age"} :
                  c.result.headers[header] = stored[header]
             /\ metadataCache' = metadataCache]_vars

\* a hit on an entry stored with Age: 1, one second later: Age is 2
C24_Witness ==
  /\ LookedUp(proc[1])
  /\ IsStoredResponse(proc[1].result)
  /\ "age" \in DOMAIN proc[1].entry.responseHeaders
  /\ proc[1].entry.responseHeaders["age"] = "1"
  /\ proc[1].result.headers["age"] = "2"
  /\ proc[1].result.body = concat(BodyA)

(***************************************************************************)
(* C25  Tee duplication.  While neither view is cancelled, each pull on    *)
(* the fast view performs one read of the source and delivers the chunk    *)
(* read to the fast view and an equal copy to the slow view, so that the   *)
(* two views always hold the same chunks in the same order; when the       *)
(* source ends, both views are closed after exactly the source's chunks.   *)
(***************************************************************************)
\* a step of the views' holders leaves the call of the slot as it is; a step
\* that changes it hands a new pair of views to onResponse
NeitherCancelled(s) == s.kind = "web" /\ ~s.fastCanceled /\ ~s.slowCanceled

C25_TeeDuplication ==
  /\ [](\A p \in Procs :
          NeitherCancelled(io[p])
          => /\ io[p].slow = io[p].fast
             /\ (io[p].fastState = "closed" \/ io[p].slowState = "closed")
                => /\ io[p].fastState = "closed"
                   /\ io[p].slowState = "closed"
                   /\ io[p].source = <<>>
                   /\ io[p].fast = BodyA)
  /\ [][\A p \in Procs :
          (NeitherCancelled(io[p]) /\ NeitherCancelled(io'[p]) /\ proc'[p] = proc[p])
          => /\ (~io[p].reading /\ io'[p].reading)
                => /\ io'[p].source = io[p].source
                   /\ io'[p].fast = io[p].fast
                   /\ io'[p].slow = io[p].slow
             /\ (io[p].reading /\ ~io'[p].reading /\ io'[p].fastState # "errored")
                => IF io[p].source = <<>>
                   THEN /\ io'[p].fast = io[p].fast
                        /\ io'[p].slow = io[p].slow
                        /\ io'[p].fastState = "closed"
                        /\ io'[p].slowState = "closed"
                   ELSE /\ io'[p].source = Tail(io[p].source)
                        /\ io'[p].fast = Append(io[p].fast, Head(io[p].source))
                        /\ io'[p].slow = Append(io[p].slow, Head(io[p].source))
                        /\ io'[p].fastState = "readable"
                        /\ io'[p].slowState = "readable"]_vars

\* the source has ended with neither view cancelled: both views are closed
\* after the two chunks of the source
C25_Witness ==
  /\ NeitherCancelled(io[1])
  /\ io[1].fastState = "closed"
  /\ io[1].slowState = "closed"
  /\ io[1].fast = BodyA
  /\ io[1].slow = BodyA

(***************************************************************************)
(* C26  Tee fast-cancel.  Cancelling the fast view cancels the source and  *)
(* the slow view, also while an insertion is draining the slow view:       *)
(* after the cancel no chunk is enqueued to either view and the slow       *)
(* view's consumer does not observe a normal end of the stream.            *)
(***************************************************************************)
C26_FastCancel ==
  [][\A p \in Procs :
       (io[p].kind = "web" /\ io'[p].kind = "web" /\ proc'[p] = proc[p])
       => /\ (~io[p].fastCanceled /\ io'[p].fastCanceled)
             => /\ io'[p].srcCanceled
                /\ io'[p].slowCanceled
                /\ io'[p].slowState # "readable"
          /\ io[p].fastCanceled
             => /\ io'[p].fast = io[p].fast
                /\ Len(io'[p].slow) <= Len(io[p].slow)
                /\ (io[p].slowLocked /\ io[p].slowState = "readable")
                   => io'[p].slowState # "closed"]_vars

(***************************************************************************)
(* C27  Tee slow-cancel.  Cancelling the slow view cancels neither the     *)
(* source nor the fast view: afterwards the fast view still receives every *)
(* remaining chunk of the source in order and is closed when the source    *)
(* ends, and no chunk is enqueued to the slow view any more.               *)
(***************************************************************************)
SlowOnlyCancelled(s) == s.kind = "web" /\ s.slowCanceled /\ ~s.fastCanceled

C27_SlowCancel ==
  /\ [](\A p \in Procs :
          (SlowOnlyCancelled(io[p]) /\ io[p].fastState = "closed")
          => (io[p].fast = BodyA /\ io[p].source = <<>> /\ ~io[p].srcCanceled))
  /\ [][\A p \in Procs :
          (io[p].kind = "web" /\ SlowOnlyCancelled(io'[p]) /\ proc'[p] = proc[p])
          => /\ ~io[p].slowCanceled
                => /\ io'[p].srcCanceled = io[p].srcCanceled
                   /\ io'[p].source = io[p].source
                   /\ io'[p].reading = io[p].reading
                   /\ io'[p].fast = io[p].fast
                   /\ io'[p].fastState = io[p].fastState
             /\ io[p].slowCanceled
                => /\ io'[p].slow = io[p].slow
                   /\ ~io'[p].srcCanceled
                   /\ (io[p].reading /\ ~io'[p].reading /\ io'[p].fastState # "errored")
                      => IF io[p].source = <<>>
                         THEN io'[p].fast = io[p].fast /\ io'[p].fastState = "closed"
                         ELSE /\ io'[p].fast = Append(io[p].fast, Head(io[p].source))
                              /\ io'[p].source = Tail(io[p].source)
                              /\ io'[p].fastState = "readable"]_vars

\* the slow view was cancelled, and the fast view went on to deliver the two
\* chunks of the source and was closed
C27_Witness ==
  /\ SlowOnlyCancelled(io[1])
  /\ io[1].fastState = "closed"
  /\ io[1].fast = BodyA
  /\ io[1].slow = <<>>

(***************************************************************************)
(* C28  Tee error forwarding.  When a read of the source fails, the error  *)
(* is delivered to every view that has not been cancelled and to no        *)
(* cancelled view; a view that has received the error never afterwards     *)
(* delivers a chunk or a normal close.                                     *)
(***************************************************************************)
C28_ErrorForwarding ==
  [][\A p \in Procs :
       (io[p].kind = "web" /\ io'[p].kind = "web" /\ proc'[p] = proc[p])
       => /\ (io'[p].fastState = "errored" /\ io[p].fastState # "errored")
             => /\ ~io[p].fastCanceled
                /\ io[p].reading
                /\ ~io[p].slowCanceled => io'[p].slowState = "errored"
          /\ (io'[p].slowState = "errored" /\ io[p].slowState # "errored")
             => /\ ~io[p].slowCanceled
                /\ io[p].reading
                /\ ~io[p].fastCanceled => io'[p].fastState = "errored"
          /\ io[p].fastState = "errored"
             => (io'[p].fastState = "errored" /\ io'[p].fast = io[p].fast)
          /\ io[p].slowState = "errored"
             => (io'[p].slowState = "errored" /\ io'[p].slow = io[p].slow)
          /\ (io[p].fastCanceled /\ io'[p].fastCanceled) => io'[p].fastState = io[p].fastState
          /\ (io[p].slowCanceled /\ io'[p].slowCanceled) => io'[p].slowState = io[p].slowState]_vars

\* a read failed after the slow view was cancelled: the fast view alone is errored
C28_Witness ==
  /\ io[1].kind = "web"
  /\ io[1].slowCanceled
  /\ io[1].slowState = "closed"
  /\ io[1].fastState = "errored"
  /\ Len(io[1].fast) = 1

(***************************************************************************)
(* C29  Storability predicate.  For every combination of shared, method,   *)
(* status, has_authorization, response Cache-Control, has_expires, vary    *)
(* and force_must_understand, canStore returns true if and only if the     *)
(* eight conditions hold: status in [200, 599]; method GET or HEAD; vary   *)
(* without '*'; no no-store; not (shared and private); shared with         *)
(* Authorization requires must-revalidate, public or a valid s-maxage;     *)
(* must-understand (or forced) requires a recognized status; and at least  *)
(* one positive signal: public, private when non-shared, Expires, a valid  *)
(* max-age, a valid s-maxage when shared, or a heuristically cacheable     *)
(* status.                                                                 *)
(***************************************************************************)
EightConditions(isShared, x) ==
  LET directives == parseCacheControl(x.rawResponseCacheControl)
      Valid(name) == toSafePositiveInteger(Directive(directives, name)) # NoNumber
  IN /\ x.statusCode \in 200..599
     /\ x.method \in {"GET", "HEAD"}
     /\ (x.vary = Null \/ \A i \in 1..Len(Chars(x.vary)) : Chars(x.vary)[i] # "*")
     /\ "no-store" \notin DOMAIN directives
     /\ ~(isShared /\ "private" \in DOMAIN directives)
     /\ (isShared /\ x.hasAuthorization)
        => \/ "must-revalidate" \in DOMAIN directives
           \/ "public" \in DOMAIN directives
           \/ Valid("s-maxage")
     /\ (x.forceMustUnderstand \/ "must-understand" \in DOMAIN directives)
        => x.statusCode \in
             {200, 201, 202, 203, 204, 205, 300, 301, 302, 303, 304, 307, 308, 400, 401,
              403, 404, 405, 406, 407, 408, 410, 411, 412, 413, 414, 415, 417, 421, 426,
              451, 500, 501, 502, 503, 504, 505, 506}
     /\ \/ "public" \in DOMAIN directives
        \/ (~isShared /\ "private" \in DOMAIN directives)
        \/ x.hasExpires
        \/ Valid("max-age")
        \/ (isShared /\ Valid("s-maxage"))
        \/ x.statusCode \in {200, 203, 204, 300, 301, 308, 404, 405, 410, 414, 451, 501}

C29_Storability ==
  \A p \in Procs :
    (proc[p].pc = "done" /\ proc[p].op = "canStore")
    => (proc[p].result <=> EightConditions(shared, proc[p].x))

\* a shared cache may store a 201 to a request with Authorization on the
\* strength of s-maxage alone
C29_Witness ==
  /\ proc[1].pc = "done"
  /\ proc[1].op = "canStore"
  /\ shared
  /\ proc[1].x.hasAuthorization
  /\ proc[1].x.statusCode = 201
  /\ proc[1].x.rawResponseCacheControl = "s-maxage=1"
  /\ ~proc[1].x.hasExpires
  /\ proc[1].result

(***************************************************************************)
(* C30  Lifetime precedence.  getLifetimeMs returns, in this order of      *)
(* precedence: not storable if no-store is among the request's or the      *)
(* response's directives; not storable if shared and private; s-maxage *   *)
(* 1000 if shared and s-maxage is valid; max-age * 1000 if max-age is      *)
(* valid; the heuristic lifetime if there is no Expires; max(0, expires -  *)
(* now) if Expires parses; otherwise not storable.  Hence a lifetime is    *)
(* never negative, and a non-shared cache ignores s-maxage.                *)
(***************************************************************************)
LifetimeRule(isShared, x) ==
  LET request == parseCacheControl(x.requestCacheControl)
      response == parseCacheControl(x.responseCacheControl)
      Valid(name) == toSafePositiveInteger(Directive(response, name)) # NoNumber
  IN CASE "no-store" \in DOMAIN request \cup DOMAIN response -> 1
       [] OTHER ->
     CASE isShared /\ "private" \in DOMAIN response -> 2
       [] OTHER ->
     CASE isShared /\ Valid("s-maxage") -> 3
       [] OTHER ->
     CASE Valid("max-age") -> 4
       [] OTHER ->
     CASE x.expires = Null -> 5
       [] OTHER ->
     CASE DateParse(x.expires) # NoNumber -> 6
       [] OTHER -> 7

C30_LifetimePrecedence ==
  \A p \in Procs :
    (proc[p].pc = "done" /\ proc[p].op = "getLifetimeMs")
    => LET c == proc[p]
           response == parseCacheControl(c.x.responseCacheControl)
           rule == LifetimeRule(shared, c.x)
       IN /\ rule \in {1, 2, 7} => c.result = NoNumber
          /\ rule = 3 => c.result = ParseInt(response["s-maxage"]) * 1000
          /\ rule = 4 => c.result = ParseInt(response["max-age"]) * 1000
          /\ rule = 5 => c.result = c.x.heuristicLifetime
          /\ rule = 6 =>
               c.result = (IF DateParse(c.x.expires) > c.at
                           THEN DateParse(c.x.expires) - c.at ELSE 0)
          /\ c.result # NoNumber => c.result >= 0
          /\ (/\ ~shared
              /\ c.x.responseCacheControl \in {"s-maxage=1", "s-maxage"}
              /\ c.x.requestCacheControl # "no-store")
             => c.result = (IF c.x.expires = Null THEN c.x.heuristicLifetime
                            ELSE IF DateParse(c.x.expires) = NoNumber THEN NoNumber
                            ELSE IF DateParse(c.x.expires) > c.at
                            THEN DateParse(c.x.expires) - c.at ELSE 0)

\* a non-shared cache, given s-maxage=1 and an Expires one second ahead,
\* takes the lifetime from Expires
C30_Witness ==
  /\ proc[1].pc = "done"
  /\ proc[1].op = "getLifetimeMs"
  /\ ~shared
  /\ proc[1].x.responseCacheControl = "s-maxage=1"
  /\ proc[1].x.expires = "Thu, 01 Jan 1970 00:00:02 GMT"
  /\ proc[1].at = 1000
  /\ proc[1].result = 1000

(***************************************************************************)
(* C31  Stored status matches stored content.  The status of every stored  *)
(* response that a lookup returns is the status code of the upstream       *)
(* response whose body is stored in the entry, also after a later GET      *)
(* response with another status code has replaced the entry.               *)
(***************************************************************************)
C31_StatusMatchesContent ==
  \A p \in Procs :
    (LookedUp(proc[p]) /\ IsStoredResponse(proc[p].result))
    => \E a \in StatusResponses(0) :
         /\ a.statusCode # 304
         /\ proc[p].result.body = concat(a.stream.source)
         /\ proc[p].result.status = a.statusCode

(***************************************************************************)
(* C32  HEAD freshening keeps the body.  When onResponse processes a HEAD  *)
(* response whose validators match the stored GET entry (so the entry is   *)
(* freshened, not invalidated), the blob stored under (id, url) is left    *)
(* unchanged by every step of that call.                                   *)
(***************************************************************************)
\* c is a HEAD onResponse that found a GET entry whose validators it matches
HeadFreshens(c) ==
  /\ FoundEntry(c)
  /\ c.pc = "write"
  /\ c.a.method = "HEAD"
  /\ Entry(metadataCache, c.a.url) # NoEntry
  /\ Entry(metadataCache, c.a.url).method = "GET"
  /\ CarriesStoredValidator(Entry(metadataCache, c.a.url), c.a.responseHeaders)

C32_HeadKeepsBody ==
  [][\A p \in Procs :
       HeadFreshens(proc[p])
       => BlobOf(blobCache, Entry(metadataCache, proc[p].a.url), proc[p].a.url)
          = BlobOf(blobCache', Entry(metadataCache, proc[p].a.url), proc[p].a.url)]_vars

(***************************************************************************)
(* C33  A 304 only acts on an existing entry.  An onResponse call for a    *)
(* 304 response that finds no entry for the URL changes neither store, and *)
(* no stored metadata entry ever has statusCode 304.                       *)
(***************************************************************************)
C33_NotModifiedNeedsEntry ==
  /\ [](\A url \in DOMAIN metadataCache : metadataCache[url].statusCode # 304)
  /\ [][\A p \in Procs :
          (/\ proc[p].pc \in {"getOld", "write"}
           /\ proc[p].a.statusCode = 304
           /\ proc[p].pc = "write" => ~proc[p].found
           /\ proc[p].pc = "getOld" => Entry(metadataCache, proc[p].a.url) = NoEntry)
          => metadataCache' = metadataCache /\ blobCache' = blobCache]_vars

(***************************************************************************)
(* C34  max-stale and min-fresh are measured in seconds.  For a stale GET  *)
(* entry that nothing forces to revalidate, a GET lookup carrying only     *)
(* max-stale=N returns the stored response exactly when the staleness      *)
(* (current age minus lifetime, in milliseconds) is at most N * 1000; for  *)
(* a fresh one, a lookup carrying only min-fresh=N returns it exactly when *)
(* the current age plus N * 1000 is below the lifetime.                    *)
(***************************************************************************)
\* c is a settled GET lookup of a GET entry that neither the entry's flags
\* nor the request's other headers force to revalidate
Unforced(c) ==
  /\ LookedUp(c)
  /\ c.a.method = "GET"
  /\ c.entry.method = "GET"
  /\ PlainRequest(c.a.requestHeaders)
  /\ RequestDirective(c.a.requestHeaders, "max-age") = NoNumber
  /\ ~c.entry.invalidated
  /\ ~c.entry.alwaysRevalidate
  /\ ~c.entry.mustRevalidateStale
  /\ ~(shared /\ c.entry.sharedMustRevalidateStale)
  /\ SameVaryHeaders(c.entry.responseHeaders, c.a.requestHeaders, c.a.requestHeaders)

C34_MaxStaleSeconds ==
  \A p \in Procs :
    LET c == proc[p]
        maxStale == RequestDirective(c.a.requestHeaders, "max-stale")
        minFresh == RequestDirective(c.a.requestHeaders, "min-fresh")
        stale == CurrentAge(c.entry, c.at) - c.entry.lifetime
    IN /\ (Unforced(c) /\ stale >= 0 /\ maxStale # NoNumber /\ minFresh = NoNumber)
          => (IsStoredResponse(c.result) <=> stale <= maxStale * 1000)
       /\ (Unforced(c) /\ stale < 0 /\ minFresh # NoNumber /\ maxStale = NoNumber)
          => (IsStoredResponse(c.result) <=> stale + minFresh * 1000 < 0)

(***************************************************************************)
(* C35  invalidate changes only the flag.  No step of an invalidate call   *)
(* creates or deletes a metadata entry or changes the blob store; the only *)
(* field of an entry it changes is invalidated, which it sets; an entry    *)
(* that is already invalidated is left exactly as it is.                   *)
(***************************************************************************)
C35_InvalidateOnlyFlag ==
  [][\A p \in Procs :
       proc[p].pc \in {"invGet", "invSet"}
       => /\ blobCache' = blobCache
          /\ DOMAIN metadataCache' = DOMAIN metadataCache
          /\ \A key \in DOMAIN metadataCache :
               /\ [metadataCache'[key] EXCEPT !.invalidated = metadataCache[key].invalidated]
                  = metadataCache[key]
               /\ metadataCache[key].invalidated => metadataCache'[key] = metadataCache[key]
               /\ metadataCache'[key] # metadataCache[key] => metadataCache'[key].invalidated]_vars

\* an invalidate call has set the flag of an entry that was stored with a body
C35_Witness ==
  /\ proc[1].pc = "done"
  /\ proc[1].op = "invalidate"
  /\ proc[1].touched
  /\ Entry(metadataCache, "u") # NoEntry
  /\ Entry(metadataCache, "u").invalidated
  /\ Entry(metadataCache, "u").lifetime > 0
  /\ getBlobKey(Entry(metadataCache, "u").id, "u") \in DOMAIN blobCache

(***************************************************************************)
(* C36  invalidate does not lose a concurrent insertion.  Once an          *)
(* onResponse that stored an entry and the invalidate running beside it    *)
(* have both completed, in whatever order their store operations were      *)
(* interleaved, the stored metadata carries the fields that this           *)
(* onResponse wrote; only the invalidated flag may differ.                 *)
(***************************************************************************)
C36_InvalidateKeepsInsertion ==
  \A p \in Procs :
    (/\ proc[p].pc = "done"
     /\ proc[p].op = "onResponse"
     /\ proc[p].path = "stored"
     /\ Free(Bg))
    => /\ Entry(metadataCache, proc[p].a.url) # NoEntry
       /\ [Entry(metadataCache, proc[p].a.url) EXCEPT !.invalidated = proc[p].metadata.invalidated]
          = proc[p].metadata

(***************************************************************************)
(* C37  Lookup is read-only.  No step of a GET or HEAD lookup changes the  *)
(* metadata store or the blob store, whether the lookup ends in a miss, a  *)
(* revalidation request, the stored response or the synthesized 504.       *)
(***************************************************************************)
\* this step belongs to a GET or HEAD lookup in slot p
LookupStep(p) ==
  /\ proc'[p] # proc[p]
  /\ proc'[p].pc # "idle"
  /\ proc'[p].op = "get"
  /\ proc'[p].a.method \in {"GET", "HEAD"}

C37_LookupReadOnly ==
  [][\A p \in Procs :
       LookupStep(p) => metadataCache' = metadataCache /\ blobCache' = blobCache]_vars

\* a GET lookup has returned a revalidation request for an entry that is
\* still stored together with its blob
C37_Witness ==
  \E p \in Procs :
    /\ LookedUp(proc[p])
    /\ proc[p].a.method = "GET"
    /\ proc[p].result.kind = "revalidation"
    /\ Entry(metadataCache, proc[p].a.url) = proc[p].entry
    /\ getBlobKey(proc[p].entry.id, proc[p].a.url) \in DOMAIN blobCache

(***************************************************************************)
(* C38  Policy rejection leaves the store unchanged.  When onResponse      *)
(* stops because the Node body was already read, because the response has  *)
(* a Content-Range, because canStore refuses it or because it has no       *)
(* lifetime, the metadata store and the blob store are exactly as they     *)
(* were before the call.                                                   *)
(***************************************************************************)
RejectionPaths == {"didRead", "contentRange", "notStoreable", "noLifetime"}

C38_RejectionKeepsStore ==
  [][\A p \in Procs :
       (Completes(p, "onResponse") /\ proc'[p].path \in RejectionPaths)
       => metadataCache' = metadataCache /\ blobCache' = blobCache]_vars

\* a response was turned away by canStore while an entry and its blob are stored
C38_Witness ==
  /\ proc[1].pc = "done"
  /\ proc[1].op = "onResponse"
  /\ proc[1].path = "notStoreable"
  /\ Entry(metadataCache, "u") # NoEntry
  /\ getBlobKey(Entry(metadataCache, "u").id, "u") \in DOMAIN blobCache

(***************************************************************************)
(* C39  No orphaned blobs.  Starting from the empty store and with stores  *)
(* that never fail, whenever the single caller is between calls the        *)
(* metadata store holds at most one entry and the blob store at most one   *)
(* blob, and the key of that blob is (id, url) for the id of the entry     *)
(* that is stored.                                                         *)
(***************************************************************************)
C39_NoOrphanedBlobs ==
  Free(1)
  => /\ Cardinality(DOMAIN metadataCache) <= 1
     /\ Cardinality(DOMAIN blobCache) <= 1
     /\ \A blobKey \in DOMAIN blobCache :
          /\ Entry(metadataCache, "u") # NoEntry
          /\ blobKey = getBlobKey(Entry(metadataCache, "u").id, "u")

\* a GET body has been stored over an entry that an earlier HEAD response
\* created (the method is the inherited one), under that entry's id
C39_Witness ==
  /\ proc[1].pc = "done"
  /\ proc[1].op = "onResponse"
  /\ proc[1].path = "stored"
  /\ proc[1].a.method = "GET"
  /\ proc[1].a.statusCode = 200
  /\ proc[1].metadata.method = "HEAD"
  /\ DOMAIN blobCache = {getBlobKey(proc[1].metadata.id, "u")}
  /\ Entry(metadataCache, "u") = proc[1].metadata

(***************************************************************************)
(* C40  Capture terminates when the consumer finishes.  While onResponse   *)
(* is running on a response whose body is the slow view: unless the        *)
(* application cancels the fast view, the slow view is eventually closed   *)
(* or errored and onResponse eventually completes; and onResponse does not *)
(* complete for a response with a body while the fast view is still        *)
(* readable, that is, neither pulled to the end of the source (or to its   *)
(* error) nor cancelled.                                                   *)
(***************************************************************************)
\* onResponse is running in slot p
Capturing(p) == proc[p].pc \in {"getOld", "drain", "write"}

\* the application has cancelled the fast view
FastCancelled(p) == io[p].kind = "web" /\ io[p].fastCanceled

\* the slow view is closed or errored
SlowEnded(p) == io[p].kind = "web" /\ io[p].slowState # "readable"

\* the liveness half of C40
CaptureEnds ==
  /\ Capturing(1) ~> (proc[1].pc = "done" \/ FastCancelled(1))
  /\ Capturing(1) ~> (SlowEnded(1) \/ FastCancelled(1))

C40_CaptureTerminates ==
  /\ CaptureEnds
  /\ [][(Completes(1, "onResponse") /\ proc'[1].a.stream.kind = "web")
        => io'[1].fastState # "readable"]_vars

\* C40 for the responses whose body onResponse reads: the same, the second
\* half for the calls that return after readWeb
C40_CaptureTerminatesAmended ==
  /\ CaptureEnds
  /\ [][(/\ Completes(1, "onResponse")
         /\ proc'[1].a.stream.kind = "web"
         /\ proc'[1].path \in {"stored", "noBody"})
        => io'[1].fastState # "readable"]_vars

\* the application has read the fast view to the end of the source and the
\* body was stored
C40_Witness ==
  /\ proc[1].pc = "done"
  /\ proc[1].op = "onResponse"
  /\ proc[1].path = "stored"
  /\ proc[1].buffer = concat(BodyA)
  /\ io[1].kind = "web"
  /\ ~io[1].fastCanceled
  /\ io[1].fastState = "closed"
  /\ io[1].slowState = "closed"

====
